---- MODULE Spec2Model ----
(***************************************************************************)
(* Biometric matching engine of the facemesh repository.                   *)
(*                                                                         *)
(* Two systems share the engine:                                           *)
(*   - BiometricAuthSystem over BiometricDatabase (biometric_auth.py,      *)
(*     biometric_database.py): enroll_user, verify, identify, delete_user. *)
(*   - FBIFacialRecognitionSystem over FBIDatabase and FBIMatcher          *)
(*     (fbi_system.py, fbi_database.py, fbi_matcher.py):                   *)
(*     enroll_person_from_images, add_person, add_image, delete_person,    *)
(*     match_against_database.                                             *)
(*                                                                         *)
(* A process constructs one of the two systems ('system'); each call is    *)
(* one atomic action and its arguments and result are recorded in 'last'.  *)
(* The stores are the in-memory dictionaries, the file BiometricDatabase   *)
(* pickles itself to, and the matches the logger holds.  The metadata and  *)
(* the time stamps kept with a user or a person play no role in a call's   *)
(* outcome and are left out, and so are the files of FBIDatabase.          *)
(*                                                                         *)
(* Feature vectors are integer vectors whose Euclidean norm is an integer, *)
(* so that cosine similarity is an exact rational.  Scores are rationals   *)
(* <<numerator, denominator>> in lowest terms with a positive denominator. *)
(* Python dictionaries are association lists in insertion order.           *)
(***************************************************************************)
EXTENDS Integers, Sequences, FiniteSets, TLC

(***************************************************************************)
(* Bounds of the model.                                                    *)
(***************************************************************************)
NumIds == 2
MaxBatch == 3
MaxTemplates == 6
MaxImages == 2
MaxPaths == 2
MaxTopK == 2
\* the matches the logger holds at most
MaxLogged == 1
\* the templates BiometricDatabase holds at most when it is used on its own
MaxStored == 3
\* the matches the logger holds at most in a session of identify_face calls
MaxRecent == 21
\* the feature vectors of the person a query is matched against
MaxFeatures == 3

Ids == 1..NumIds

(***************************************************************************)
(* Rational arithmetic.                                                    *)
(***************************************************************************)
Abs(x) == IF x < 0 THEN -x ELSE x

RECURSIVE GCD(_, _)
GCD(a, b) == IF b = 0 THEN a ELSE GCD(b, a % b)

Rat(n, d) ==
  LET g == GCD(Abs(n), d)
  IN  <<n \div g, d \div g>>

RatLeq(x, y) == x[1] * y[2] <= y[1] * x[2]
RatLt(x, y) == x[1] * y[2] < y[1] * x[2]
RatGeq(x, y) == RatLeq(y, x)
RatAdd(x, y) == Rat(x[1] * y[2] + y[1] * x[2], x[2] * y[2])
RatMul(x, y) == Rat(x[1] * y[1], x[2] * y[2])
RatMax(x, y) == IF RatLt(x, y) THEN y ELSE x
RatMin(x, y) == IF RatLt(y, x) THEN y ELSE x
RatSub(x, y) == RatAdd(x, <<0 - y[1], y[2]>>)
RatAbs(x) == <<Abs(x[1]), x[2]>>
RatDiv(x, y) == Rat(x[1] * y[2], x[2] * y[1])
Zero == <<0, 1>>
One == <<1, 1>>

(***************************************************************************)
(* IEEE 754 binary64, the arithmetic of the Python floats, for the         *)
(* functions that are checked on their own as numerical code.  A natural   *)
(* number of any size is the sequence of its digits to the base 2^14,      *)
(* least significant first, without leading zeros.  A double is            *)
(* sign * mant * 2^exp with a mantissa of 53 bits; zero has the empty      *)
(* mantissa.  Overflow, subnormal numbers and NaN are out of reach of the  *)
(* values computed here.                                                   *)
(***************************************************************************)
LimbBits == 14
Limb == 2 ^ LimbBits
MantBits == 53

RECURSIVE Limbs(_)
Limbs(n) == IF n = 0 THEN <<>> ELSE <<n % Limb>> \o Limbs(n \div Limb)

\* the number a short digit sequence stands for
RECURSIVE LimbsToNat(_)
LimbsToNat(a) == IF a = <<>> THEN 0 ELSE a[1] + Limb * LimbsToNat(Tail(a))

RECURSIVE LimbsTrim(_)
LimbsTrim(a) ==
  IF a = <<>> \/ a[Len(a)] # 0 THEN a ELSE LimbsTrim(SubSeq(a, 1, Len(a) - 1))

LimbAt(a, i) == IF i >= 1 /\ i <= Len(a) THEN a[i] ELSE 0

RECURSIVE LimbsAddFrom(_, _, _, _)
LimbsAddFrom(a, b, i, carry) ==
  IF i > Len(a) /\ i > Len(b) THEN (IF carry = 0 THEN <<>> ELSE <<carry>>)
  ELSE <<(LimbAt(a, i) + LimbAt(b, i) + carry) % Limb>>
         \o LimbsAddFrom(a, b, i + 1, (LimbAt(a, i) + LimbAt(b, i) + carry) \div Limb)

LimbsAdd(a, b) == LimbsAddFrom(a, b, 1, 0)

\* a - b for a >= b
RECURSIVE LimbsSubFrom(_, _, _, _)
LimbsSubFrom(a, b, i, borrow) ==
  IF i > Len(a) THEN <<>>
  ELSE <<(Limb + LimbAt(a, i) - LimbAt(b, i) - borrow) % Limb>>
         \o LimbsSubFrom(a, b, i + 1,
                         IF LimbAt(a, i) - LimbAt(b, i) - borrow < 0 THEN 1 ELSE 0)

LimbsSub(a, b) == LimbsTrim(LimbsSubFrom(a, b, 1, 0))

\* a < b, by the highest digit in which they differ
RECURSIVE LimbsLessFrom(_, _, _)
LimbsLessFrom(a, b, i) ==
  IF i = 0 THEN FALSE
  ELSE IF LimbAt(a, i) # LimbAt(b, i) THEN LimbAt(a, i) < LimbAt(b, i)
  ELSE LimbsLessFrom(a, b, i - 1)

LimbsLess(a, b) == LimbsLessFrom(a, b, IF Len(a) > Len(b) THEN Len(a) ELSE Len(b))

\* a * m for a digit m
RECURSIVE LimbsScaleFrom(_, _, _, _)
LimbsScaleFrom(a, m, i, carry) ==
  IF i > Len(a) THEN (IF carry = 0 THEN <<>> ELSE <<carry>>)
  ELSE <<(a[i] * m + carry) % Limb>>
         \o LimbsScaleFrom(a, m, i + 1, (a[i] * m + carry) \div Limb)

LimbsScale(a, m) == IF m = 0 THEN <<>> ELSE LimbsScaleFrom(a, m, 1, 0)

\* a * Limb^n
LimbsUp(a, n) ==
  IF a = <<>> THEN <<>> ELSE [i \in 1..(Len(a) + n) |-> IF i <= n THEN 0 ELSE a[i - n]]

\* a * 2^n
ShiftLeft(a, n) == LimbsUp(LimbsScale(a, 2 ^ (n % LimbBits)), n \div LimbBits)

RECURSIVE LimbsMulFrom(_, _, _)
LimbsMulFrom(a, b, i) ==
  IF i > Len(a) THEN <<>>
  ELSE LimbsAdd(LimbsUp(LimbsScale(b, a[i]), i - 1), LimbsMulFrom(a, b, i + 1))

LimbsMul(a, b) == LimbsMulFrom(a, b, 1)

\* long division of a by the small number d, from the highest digit down:
\* the remainder once the digits i.. have been brought down
RECURSIVE LimbsRemFrom(_, _, _)
LimbsRemFrom(a, d, i) ==
  IF i > Len(a) THEN 0 ELSE (Limb * LimbsRemFrom(a, d, i + 1) + a[i]) % d

LimbsDiv(a, d) ==
  [q |-> LimbsTrim([i \in 1..Len(a) |-> (Limb * LimbsRemFrom(a, d, i + 1) + a[i]) \div d]),
   r |-> LimbsRemFrom(a, d, 1)]

\* floor(a / 2^n)
ShiftRight(a, n) ==
  LimbsDiv(SubSeq(a, n \div LimbBits + 1, Len(a)), 2 ^ (n % LimbBits)).q

\* the number of bits of a # <<>>
BitLen(a) ==
  (Len(a) - 1) * LimbBits
    + (CHOOSE k \in 1..LimbBits : 2 ^ (k - 1) <= a[Len(a)] /\ a[Len(a)] < 2 ^ k)

\* the number of zero bits below the lowest 1 of a # <<>>
LowZeros(a) ==
  CHOOSE n \in 0..(Len(a) * LimbBits) :
    /\ ShiftLeft(ShiftRight(a, n), n) = a
    /\ ShiftRight(a, n)[1] % 2 = 1

Double(sign, mant, exp) == [sign |-> sign, mant |-> mant, exp |-> exp]
FZero == Double(1, <<>>, 0)

\* kept, with one more in its last place when up, as a mantissa
Rounded(sign, kept, exp, up) ==
  IF ~up THEN Double(sign, kept, exp)
  ELSE IF BitLen(LimbsAdd(kept, <<1>>)) > MantBits
  THEN Double(sign, ShiftRight(LimbsAdd(kept, <<1>>), 1), exp + 1)
  ELSE Double(sign, LimbsAdd(kept, <<1>>), exp)

\* the bits of mag above its lowest k are kept; 'dropped' is the number the
\* lowest k bits stand for; the mantissa goes up when the dropped part (plus
\* a non-zero amount below it when inexact) is above the half, or is the
\* half and the mantissa is odd
RoundDropped(sign, kept, dropped, half, exp, inexact) ==
  Rounded(sign, kept, exp,
          \/ LimbsLess(half, dropped)
          \/ dropped = half /\ (inexact \/ kept[1] % 2 = 1))

\* the double nearest to sign * mag * 2^exp, ties to the even mantissa, for
\* a mag of more than MantBits bits
RoundWide(sign, mag, exp, inexact, k) ==
  RoundDropped(sign, ShiftRight(mag, k),
               LimbsSub(mag, ShiftLeft(ShiftRight(mag, k), k)),
               ShiftLeft(<<1>>, k - 1), exp + k, inexact)

\* the double nearest to sign * mag * 2^exp (plus a non-zero amount below
\* 2^exp when inexact: then mag has more than MantBits bits)
RoundToDouble(sign, mag, exp, inexact) ==
  IF mag = <<>> THEN FZero
  ELSE IF BitLen(mag) <= MantBits
  THEN Double(sign, ShiftLeft(mag, MantBits - BitLen(mag)), exp - (MantBits - BitLen(mag)))
  ELSE RoundWide(sign, mag, exp, inexact, BitLen(mag) - MantBits)

\* float(n) of a natural number
FromNat(n) == RoundToDouble(1, Limbs(n), 0, FALSE)

FNeg(x) == [x EXCEPT !.sign = 0 - x.sign]
FAbs(x) == [x EXCEPT !.sign = 1]

\* x + y of numbers that are not zero, a and b their mantissas to 2^exp
AddAligned(x, y, a, b, exp) ==
  IF x.sign = y.sign THEN RoundToDouble(x.sign, LimbsAdd(a, b), exp, FALSE)
  ELSE IF a = b THEN FZero
  ELSE IF LimbsLess(a, b) THEN RoundToDouble(y.sign, LimbsSub(b, a), exp, FALSE)
  ELSE RoundToDouble(x.sign, LimbsSub(a, b), exp, FALSE)

\* x + y
FAdd(x, y) ==
  IF x.mant = <<>> THEN y
  ELSE IF y.mant = <<>> THEN x
  ELSE IF x.exp <= y.exp
  THEN AddAligned(x, y, x.mant, ShiftLeft(y.mant, y.exp - x.exp), x.exp)
  ELSE AddAligned(x, y, ShiftLeft(x.mant, x.exp - y.exp), y.mant, y.exp)

\* x - y
FSub(x, y) == FAdd(x, FNeg(y))

\* x * y
FMul(x, y) ==
  IF x.mant = <<>> \/ y.mant = <<>> THEN FZero
  ELSE RoundToDouble(x.sign * y.sign, LimbsMul(x.mant, y.mant), x.exp + y.exp, FALSE)

\* the quotient sign * num / d * 2^exp
DivRounded(sign, quotient, exp) ==
  RoundToDouble(sign, quotient.q, exp, quotient.r # 0)

\* the bits the dividend gets below its mantissa
DivShift == 64

\* x / d * 2^(-n)
DivOdd(x, sign, d, n) ==
  DivRounded(x.sign * sign, LimbsDiv(ShiftLeft(x.mant, DivShift), d), x.exp - DivShift - n)

\* x / y for a divisor y = d * 2^n with a small odd d
FDiv(x, y) ==
  IF x.mant = <<>> THEN FZero
  ELSE DivOdd(x, y.sign, LimbsToNat(ShiftRight(y.mant, LowZeros(y.mant))),
              y.exp + LowZeros(y.mant))

\* x < y
FLess(x, y) == FSub(x, y).mant # <<>> /\ FSub(x, y).sign = 0 - 1

\* Python's min(x, y)
FMin(x, y) == IF FLess(y, x) THEN y ELSE x

\* the double a decimal literal p/q denotes
Lit(p, q) == FDiv(FromNat(p), FromNat(q))
(***************************************************************************)
(* Python helpers: max(list), np.mean(list), list.index, s[:k], and the    *)
(* stable list.sort(key=..., reverse=True).                                *)
(***************************************************************************)
RECURSIVE PyMaxFrom(_, _, _)
PyMaxFrom(s, i, best) ==
  IF i > Len(s) THEN best
  ELSE PyMaxFrom(s, i + 1, IF RatLt(best, s[i]) THEN s[i] ELSE best)

\* max(similarities); the caller guarantees a non-empty list, Python raises
\* ValueError on an empty one.
PyMax(s) == PyMaxFrom(s, 2, s[1])

RECURSIVE RatSum(_)
RatSum(s) == IF s = <<>> THEN Zero ELSE RatAdd(s[1], RatSum(Tail(s)))

\* np.mean(similarities)
Mean(s) == RatMul(RatSum(s), <<1, Len(s)>>)

\* similarities.index(x): 0-based position of the first occurrence
PyIndex(s, x) == (CHOOSE i \in 1..Len(s) : s[i] = x /\ \A j \in 1..(i - 1) : s[j] # x) - 1

\* s[:k], negative k counted from the end
PySlice(s, k) ==
  LET n == IF k >= 0 THEN (IF k < Len(s) THEN k ELSE Len(s))
           ELSE (IF Len(s) + k > 0 THEN Len(s) + k ELSE 0)
  IN  SubSeq(s, 1, n)

\* place e behind every element whose key is >= its own key; the key of a
\* match entry is its confidence (x[1] of identify's tuples, x["confidence"]
\* of the matcher's dicts)
RECURSIVE InsertDesc(_, _)
InsertDesc(sorted, e) ==
  IF sorted = <<>> THEN <<e>>
  ELSE IF RatLt(Head(sorted).confidence, e.confidence) THEN <<e>> \o sorted
  ELSE <<Head(sorted)>> \o InsertDesc(Tail(sorted), e)

RECURSIVE SortDescFrom(_, _, _)
SortDescFrom(s, i, acc) ==
  IF i > Len(s) THEN acc
  ELSE SortDescFrom(s, i + 1, InsertDesc(acc, s[i]))

\* list.sort(key=confidence, reverse=True): descending, equal keys keep
\* their order
SortDesc(s) == SortDescFrom(s, 1, <<>>)

(***************************************************************************)
(* Python dict as an association list <<[k, v], ...>> in insertion order.  *)
(***************************************************************************)
Keys(d) == [i \in 1..Len(d) |-> d[i].k]
KeySet(d) == {d[i].k : i \in 1..Len(d)}
Has(d, key) == \E i \in 1..Len(d) : d[i].k = key
Get(d, key) == d[CHOOSE i \in 1..Len(d) : d[i].k = key].v
\* d[key] = val
Put(d, key, val) ==
  IF Has(d, key)
  THEN [i \in 1..Len(d) |-> IF d[i].k = key THEN [k |-> key, v |-> val] ELSE d[i]]
  ELSE Append(d, [k |-> key, v |-> val])
\* del d[key]
Del(d, key) == SelectSeq(d, LAMBDA e : e.k # key)

(***************************************************************************)
(* Feature vectors and images.                                             *)
(***************************************************************************)
\* cosines: A.B = 3/4, A.C = 0, B.C = 1/2
VecA == <<4, 0, 0, 0, 0>>
VecB == <<3, 2, 1, 1, 1>>
VecC == <<0, 4, 0, 0, 0>>
Vecs == {VecA, VecB, VecC}

\* detector.detect returned None or an empty list
NoFace == <<>>

\* what extract_features_from_image yields for an image
Probes == Vecs \cup {NoFace}

RECURSIVE DotFrom(_, _, _)
DotFrom(a, b, i) == IF i > Len(a) THEN 0 ELSE a[i] * b[i] + DotFrom(a, b, i + 1)
Dot(a, b) == DotFrom(a, b, 1)
ISqrt(n) == CHOOSE r \in 0..n : r * r = n
Norm(a) == ISqrt(Dot(a, a))
\* the dot product divided by the squared norm of the first vector
Cosine_first_norm(a, b) == Rat(Dot(a, b), Norm(a) * Norm(a))

Cosine(a, b) == Rat(Dot(a, b), Norm(a) * Norm(b))

\* BiometricFeatureExtractor.compute_similarity
compute_similarity(features1, features2) ==
  LET similarity == Cosine(features1, features2)
  IN  RatMax(Zero, RatMin(One, similarity))

\* FBIMatcher.calculate_similarity
calculate_similarity(features1, features2) ==
  LET similarity == Cosine(features1, features2)
  IN  RatMul(RatAdd(similarity, One), <<1, 2>>)

\* the two metrics tabulated over the model's vectors (evaluated once)
ExtractorSimilarity == [a \in Vecs, b \in Vecs |-> compute_similarity(a, b)]
MatcherSimilarity == [a \in Vecs, b \in Vecs |-> calculate_similarity(a, b)]

(***************************************************************************)
(* Configuration.                                                          *)
(***************************************************************************)
min_samples_for_enrollment == 3
\* default min_similarity of _check_sample_consistency: 0.65
min_similarity == <<13, 20>>
\* FBIMatcher(threshold=0.75)
matcher_threshold == <<3, 4>>
\* BiometricAuthSystem(verification_threshold=0.75,
\* identification_threshold=0.70), the defaults every caller passes
verification_threshold == <<3, 4>>
identification_threshold == <<7, 10>>

Systems == {"BiometricAuthSystem", "FBIFacialRecognitionSystem"}

VARIABLES
  system,                    \* which of the two systems this process constructed
  database,                  \* BiometricDatabase.database: user_id -> templates
  db_file,                   \* the file biometric_data.pkl
  persons,                   \* FBIDatabase.metadata["persons"]: person_id -> images
  total_persons,             \* FBIDatabase.metadata["total_persons"]
  total_images,              \* FBIDatabase.metadata["total_images"]
  features,                  \* FBIDatabase.features: person_id -> feature vectors
  current_matches,           \* FBIFacialRecognitionSystem.current_matches
  recent_matches,            \* FBIFacialRecognitionSystem.recent_matches
  logger_matches,            \* FBILogger.matches: the logged match events
  threads,                   \* the threads writing to the FBI database
  last                       \* the last completed call: operation, arguments, result,
                             \* and whether it changed a store

authVars == <<database, db_file>>
fbiVars == <<persons, total_persons, total_images, features>>
sessionVars == <<current_matches, recent_matches, logger_matches>>
vars == <<system, database, db_file, persons, total_persons, total_images, features,
          current_matches, recent_matches, logger_matches, threads, last>>

\* biometric_data.pkl: the database the last successful save pickled (the
\* empty one when there is no file yet: load() leaves the database empty),
\* or what a save left that failed after open() had truncated the file
File(db) == [readable |-> TRUE, database |-> db]
TornFile == [readable |-> FALSE, database |-> <<>>]

Call(op, id, input, ok, msg, out, changed) ==
  [op |-> op, id |-> id, input |-> input, ok |-> ok, msg |-> msg, out |-> out,
   changed |-> changed]

\* No operation reads 'last'.  A call that changed no store leads to a state
\* that differs from its predecessor in 'last' alone, and the calls possible
\* there are the calls possible in the predecessor with the same effects: the
\* exploration continues from the states a store change (or Init) produced.
Ready == last.changed

Init ==
  /\ system \in Systems
  /\ database = <<>>
  /\ db_file = File(<<>>)
  /\ persons = <<>>
  /\ total_persons = 0
  /\ total_images = 0
  /\ features = <<>>
  /\ current_matches = <<>>
  /\ recent_matches = <<>>
  /\ logger_matches = <<>>
  /\ threads = <<>>
  /\ last = Call("init", 0, <<>>, TRUE, "", <<>>, TRUE)

(***************************************************************************)
(* BiometricDatabase (biometric_database.py).  The value kept per user is  *)
(* its 'templates' list.                                                   *)
(***************************************************************************)
\* an enroll_user that starts the templates list over for a user it knows
db_enroll_user_replace(db, user_id, feature_vector) ==
  Put(db, user_id, <<feature_vector>>)

\* BiometricDatabase.enroll_user: new user, or one more template
db_enroll_user(db, user_id, feature_vector) ==
  IF ~Has(db, user_id)
  THEN Put(db, user_id, <<feature_vector>>)
  ELSE Put(db, user_id, Append(Get(db, user_id), feature_vector))

\* what a save meets: the disk takes the file, open() raises and the file
\* stays as it is, or pickle.dump raises after open() truncated the file
Disks == {"ok", "open_fails", "dump_fails"}

\* BiometricDatabase.save: the exception is caught and False is returned
save(db, file, disk) ==
  IF disk = "ok" THEN [ok |-> TRUE, file |-> File(db)]
  ELSE IF disk = "open_fails" THEN [ok |-> FALSE, file |-> file]
  ELSE [ok |-> FALSE, file |-> TornFile]

\* the database in memory and its file
Store(db, file) == [database |-> db, file |-> file]

\* BiometricDatabase.enroll_user with its save(): True whatever save returned
BiometricDatabase_enroll_user(st, user_id, feature_vector, disk) ==
  [ok |-> TRUE,
   st |-> Store(db_enroll_user(st.database, user_id, feature_vector),
                save(db_enroll_user(st.database, user_id, feature_vector),
                     st.file, disk).file)]

\* BiometricDatabase.get_user_templates: Optional[List]; some = FALSE is None
get_user_templates(db, user_id) ==
  IF Has(db, user_id)
  THEN [some |-> TRUE, templates |-> Get(db, user_id)]
  ELSE [some |-> FALSE, templates |-> <<>>]

\* BiometricDatabase.get_all_users
get_all_users(db) == Keys(db)

\* a delete_user that drops every user along with the one it was given
db_delete_user_drops_all(db, user_id) ==
  IF Has(db, user_id)
  THEN [ok |-> TRUE, database |-> <<>>]
  ELSE [ok |-> FALSE, database |-> db]

\* a delete_user that clears the templates and keeps the user
db_delete_user_keeps_user(db, user_id) ==
  IF Has(db, user_id)
  THEN [ok |-> TRUE, database |-> Put(db, user_id, <<>>)]
  ELSE [ok |-> FALSE, database |-> db]

\* BiometricDatabase.delete_user
db_delete_user(db, user_id) ==
  IF Has(db, user_id)
  THEN [ok |-> TRUE, database |-> Del(db, user_id)]
  ELSE [ok |-> FALSE, database |-> db]

\* BiometricDatabase.delete_user with its save()
BiometricDatabase_delete_user(st, user_id, disk) ==
  IF db_delete_user(st.database, user_id).ok
  THEN [ok |-> TRUE,
        st |-> Store(db_delete_user(st.database, user_id).database,
                     save(db_delete_user(st.database, user_id).database,
                          st.file, disk).file)]
  ELSE [ok |-> FALSE, st |-> st]

\* BiometricDatabase.update_user_metadata: the templates stay, the database
\* is saved
update_user_metadata(st, user_id, disk) ==
  IF Has(st.database, user_id)
  THEN [ok |-> TRUE, st |-> Store(st.database, save(st.database, st.file, disk).file)]
  ELSE [ok |-> FALSE, st |-> st]

TotalTemplates(db) ==
  LET RECURSIVE Count(_)
      Count(i) == IF i > Len(db) THEN 0 ELSE Len(db[i].v) + Count(i + 1)
  IN  Count(1)

(***************************************************************************)
(* BiometricAuthSystem (biometric_auth.py).  An image is represented by    *)
(* the feature vector the detector and the extractor derive from it, or by *)
(* NoFace when the detector finds no landmarks.                            *)
(***************************************************************************)
\* BiometricAuthSystem.extract_features_from_image: None when no face
extract_features_from_image(image) == IF image = NoFace THEN NoFace ELSE image

\* the similarities of a probe to each template, with the extractor's metric
Similarities(feats, templates) ==
  [i \in 1..Len(templates) |-> ExtractorSimilarity[feats, templates[i]]]

\* the loops 'for i ... for j in range(i + 1, n)' of _check_sample_consistency
RECURSIVE ConsistentFrom(_, _, _, _)
ConsistentFrom(feature_vectors, i, j, min_sim) ==
  IF i > Len(feature_vectors) THEN TRUE
  ELSE IF j > Len(feature_vectors)
       THEN ConsistentFrom(feature_vectors, i + 1, i + 2, min_sim)
  ELSE IF RatLt(ExtractorSimilarity[feature_vectors[i], feature_vectors[j]], min_sim)
       THEN FALSE
  ELSE ConsistentFrom(feature_vectors, i, j + 1, min_sim)

\* _check_sample_consistency rejecting a pair that scores the minimum
check_sample_consistency_leq(feature_vectors, min_sim) ==
  IF Len(feature_vectors) < 2 THEN TRUE
  ELSE ~\E i, j \in 1..Len(feature_vectors) :
          /\ i < j
          /\ RatLeq(ExtractorSimilarity[feature_vectors[i], feature_vectors[j]], min_sim)

\* BiometricAuthSystem._check_sample_consistency
check_sample_consistency(feature_vectors, min_sim) ==
  IF Len(feature_vectors) < 2 THEN TRUE
  ELSE ConsistentFrom(feature_vectors, 1, 2, min_sim)

\* an enrollment loop that stops after the first vector of the batch
EnrollAll_first_only(db, user_id, feature_vectors, i) ==
  IF i > Len(feature_vectors) THEN db
  ELSE db_enroll_user(db, user_id, feature_vectors[i])

\* the loop 'for features in feature_vectors: database.enroll_user(...)'
RECURSIVE EnrollAll(_, _, _, _)
EnrollAll(db, user_id, feature_vectors, i) ==
  IF i > Len(feature_vectors) THEN db
  ELSE EnrollAll(db_enroll_user(db, user_id, feature_vectors[i]),
                 user_id, feature_vectors, i + 1)

\* enroll_user with the templates written before the consistency check
enroll_user_writes_first(db, user_id, images) ==
  LET feature_vectors == [i \in 1..Len(images) |-> extract_features_from_image(images[i])]
  IN  IF Len(images) < min_samples_for_enrollment
      THEN [ok |-> FALSE, msg |-> "need_samples", database |-> db]
      ELSE IF \E i \in 1..Len(images) : feature_vectors[i] = NoFace
      THEN [ok |-> FALSE, msg |-> "no_face", database |-> db]
      ELSE IF ~check_sample_consistency(feature_vectors, min_similarity)
      THEN [ok |-> FALSE, msg |-> "inconsistent",
            database |-> EnrollAll(db, user_id, feature_vectors, 1)]
      ELSE [ok |-> TRUE, msg |-> "enrolled",
            database |-> EnrollAll(db, user_id, feature_vectors, 1)]

\* BiometricAuthSystem.enroll_user: (success, message) and the database after
enroll_user(db, user_id, images) ==
  LET feature_vectors == [i \in 1..Len(images) |-> extract_features_from_image(images[i])]
  IN  IF Len(images) < min_samples_for_enrollment
      THEN [ok |-> FALSE, msg |-> "need_samples", database |-> db]
      ELSE IF \E i \in 1..Len(images) : feature_vectors[i] = NoFace
      THEN [ok |-> FALSE, msg |-> "no_face", database |-> db]
      ELSE IF ~check_sample_consistency(feature_vectors, min_similarity)
      THEN [ok |-> FALSE, msg |-> "inconsistent", database |-> db]
      ELSE [ok |-> TRUE, msg |-> "enrolled",
            database |-> EnrollAll(db, user_id, feature_vectors, 1)]

\* verify with the features extracted before the user is looked up
verify_extract_first(db, threshold, user_id, image) ==
  LET templates == get_user_templates(db, user_id)
      feats == extract_features_from_image(image)
      similarities == Similarities(feats, templates.templates)
      max_similarity == PyMax(similarities)
  IN  IF feats = NoFace
      THEN [verified |-> FALSE, confidence |-> Zero, msg |-> "no_face", raised |-> FALSE]
      ELSE IF ~templates.some
      THEN [verified |-> FALSE, confidence |-> Zero, msg |-> "not_found", raised |-> FALSE]
      ELSE IF similarities = <<>>
      THEN [verified |-> FALSE, confidence |-> Zero, msg |-> "ValueError", raised |-> TRUE]
      ELSE [verified |-> RatGeq(max_similarity, threshold),
            confidence |-> max_similarity,
            msg |-> IF RatGeq(max_similarity, threshold) THEN "successful" ELSE "failed",
            raised |-> FALSE]

\* verify with a strict comparison against the threshold
verify_strict(db, threshold, user_id, image) ==
  LET templates == get_user_templates(db, user_id)
      feats == extract_features_from_image(image)
      similarities == Similarities(feats, templates.templates)
      max_similarity == PyMax(similarities)
  IN  IF ~templates.some
      THEN [verified |-> FALSE, confidence |-> Zero, msg |-> "not_found", raised |-> FALSE]
      ELSE IF feats = NoFace
      THEN [verified |-> FALSE, confidence |-> Zero, msg |-> "no_face", raised |-> FALSE]
      ELSE IF similarities = <<>>
      THEN [verified |-> FALSE, confidence |-> Zero, msg |-> "ValueError", raised |-> TRUE]
      ELSE [verified |-> RatLt(threshold, max_similarity),
            confidence |-> max_similarity,
            msg |-> IF RatLt(threshold, max_similarity) THEN "successful" ELSE "failed",
            raised |-> FALSE]

\* verify scoring the probe by the mean of the similarities
verify_mean(db, threshold, user_id, image) ==
  LET templates == get_user_templates(db, user_id)
      feats == extract_features_from_image(image)
      similarities == Similarities(feats, templates.templates)
      max_similarity == Mean(similarities)
  IN  IF ~templates.some
      THEN [verified |-> FALSE, confidence |-> Zero, msg |-> "not_found", raised |-> FALSE]
      ELSE IF feats = NoFace
      THEN [verified |-> FALSE, confidence |-> Zero, msg |-> "no_face", raised |-> FALSE]
      ELSE IF similarities = <<>>
      THEN [verified |-> FALSE, confidence |-> Zero, msg |-> "ValueError", raised |-> TRUE]
      ELSE [verified |-> RatGeq(max_similarity, threshold),
            confidence |-> max_similarity,
            msg |-> IF RatGeq(max_similarity, threshold) THEN "successful" ELSE "failed",
            raised |-> FALSE]

\* BiometricAuthSystem.verify: (verified, confidence, message); raised is
\* max() of an empty list
verify(db, threshold, user_id, image) ==
  LET templates == get_user_templates(db, user_id)
      feats == extract_features_from_image(image)
      similarities == Similarities(feats, templates.templates)
      max_similarity == PyMax(similarities)
  IN  IF ~templates.some
      THEN [verified |-> FALSE, confidence |-> Zero, msg |-> "not_found", raised |-> FALSE]
      ELSE IF feats = NoFace
      THEN [verified |-> FALSE, confidence |-> Zero, msg |-> "no_face", raised |-> FALSE]
      ELSE IF similarities = <<>>
      THEN [verified |-> FALSE, confidence |-> Zero, msg |-> "ValueError", raised |-> TRUE]
      ELSE [verified |-> RatGeq(max_similarity, threshold),
            confidence |-> max_similarity,
            msg |-> IF RatGeq(max_similarity, threshold) THEN "successful" ELSE "failed",
            raised |-> FALSE]

\* the loop over database.get_all_users() in identify: one (user_id,
\* max_similarity) entry per user, in the dictionary's order
UserMatches(db, feats) ==
  LET users == get_all_users(db)
  IN  [i \in 1..Len(users) |->
        [user_id |-> users[i],
         confidence |-> PyMax(Similarities(feats, get_user_templates(db, users[i]).templates))]]

Reverse(s) == [i \in 1..Len(s) |-> s[Len(s) + 1 - i]]

\* identify with the matches sorted without reverse=True
identify_ascending(db, threshold, image, top_k) ==
  LET feats == extract_features_from_image(image)
      sorted == Reverse(SortDesc(UserMatches(db, feats)))
      matches == SelectSeq(sorted, LAMBDA m : RatGeq(m.confidence, threshold))
  IN  IF feats = NoFace
      THEN [matches |-> <<>>, raised |-> FALSE]
      ELSE IF \E i \in 1..Len(db) : db[i].v = <<>>
      THEN [matches |-> <<>>, raised |-> TRUE]
      ELSE [matches |-> PySlice(matches, top_k), raised |-> FALSE]

\* identify without 'if features is None: return []': the similarity of None
\* to a template raises
identify_unguarded(db, threshold, image, top_k) ==
  LET feats == extract_features_from_image(image)
      sorted == SortDesc(UserMatches(db, feats))
      matches == SelectSeq(sorted, LAMBDA m : RatGeq(m.confidence, threshold))
  IN  IF feats = NoFace
      THEN [matches |-> <<>>, raised |-> db # <<>>]
      ELSE IF \E i \in 1..Len(db) : db[i].v = <<>>
      THEN [matches |-> <<>>, raised |-> TRUE]
      ELSE [matches |-> PySlice(matches, top_k), raised |-> FALSE]

\* BiometricAuthSystem.identify: the (user_id, score) list; raised is max()
\* of an empty list
identify(db, threshold, image, top_k) ==
  LET feats == extract_features_from_image(image)
      sorted == SortDesc(UserMatches(db, feats))
      matches == SelectSeq(sorted, LAMBDA m : RatGeq(m.confidence, threshold))
  IN  IF feats = NoFace
      THEN [matches |-> <<>>, raised |-> FALSE]
      ELSE IF \E i \in 1..Len(db) : db[i].v = <<>>
      THEN [matches |-> <<>>, raised |-> TRUE]
      ELSE [matches |-> PySlice(matches, top_k), raised |-> FALSE]

\* BiometricAuthSystem.delete_user
delete_user(db, user_id) == db_delete_user(db, user_id)

(***************************************************************************)
(* FBIDatabase (fbi_database.py).  st is the in-memory database: the       *)
(* 'persons' dictionary (the value kept per person is its 'images' list),  *)
(* the two counters of the metadata, and the features dictionary.          *)
(***************************************************************************)
FBIState(p, tp, ti, f) ==
  [persons |-> p, total_persons |-> tp, total_images |-> ti, features |-> f]

\* add_person without the entry in the features dictionary
add_person_without_features(st, person_id) ==
  IF Has(st.persons, person_id)
  THEN [ok |-> FALSE, st |-> st]
  ELSE [ok |-> TRUE,
        st |-> FBIState(Put(st.persons, person_id, <<>>),
                        st.total_persons + 1,
                        st.total_images,
                        st.features)]

\* FBIDatabase.add_person
add_person(st, person_id) ==
  IF Has(st.persons, person_id)
  THEN [ok |-> FALSE, st |-> st]
  ELSE [ok |-> TRUE,
        st |-> FBIState(Put(st.persons, person_id, <<>>),
                        st.total_persons + 1,
                        st.total_images,
                        Put(st.features, person_id, <<>>))]

\* the image_data dictionary of add_image; metadata is <<>> for None and a
\* one-element sequence holding the dictionary otherwise
ImageData(person_id, index, metadata) ==
  [image_id |-> <<person_id, index>>,
   quality_score |-> IF metadata = <<>> THEN Zero ELSE metadata[1].quality_score]

\* add_image refusing an image whose quality_score is below 0.5
add_image_quality_gate(st, person_id, image, feats, metadata) ==
  IF ~Has(st.persons, person_id)
  THEN [ok |-> FALSE, msg |-> "Person not found in database", st |-> st]
  ELSE IF ~image.exists
  THEN [ok |-> FALSE, msg |-> "Image file not found", st |-> st]
  ELSE IF RatLt(ImageData(person_id, 0, metadata).quality_score, <<1, 2>>)
  THEN [ok |-> FALSE, msg |-> "Image quality too low", st |-> st]
  ELSE
    LET images == Get(st.persons, person_id)
        image_data == ImageData(person_id, Len(images), metadata)
        feature_map == IF ~Has(st.features, person_id)
                       THEN Put(st.features, person_id, <<>>)
                       ELSE st.features
    IN  [ok |-> TRUE, msg |-> "Image added successfully",
         st |-> FBIState(Put(st.persons, person_id, Append(images, image_data)),
                         st.total_persons,
                         st.total_images + 1,
                         Put(feature_map, person_id,
                             Append(Get(feature_map, person_id), feats)))]

\* FBIDatabase.add_image; image is the file at image_path
add_image(st, person_id, image, feats, metadata) ==
  IF ~Has(st.persons, person_id)
  THEN [ok |-> FALSE, msg |-> "Person not found in database", st |-> st]
  ELSE IF ~image.exists
  THEN [ok |-> FALSE, msg |-> "Image file not found", st |-> st]
  ELSE
    LET images == Get(st.persons, person_id)
        image_data == ImageData(person_id, Len(images), metadata)
        feature_map == IF ~Has(st.features, person_id)
                       THEN Put(st.features, person_id, <<>>)
                       ELSE st.features
    IN  [ok |-> TRUE, msg |-> "Image added successfully",
         st |-> FBIState(Put(st.persons, person_id, Append(images, image_data)),
                         st.total_persons,
                         st.total_images + 1,
                         Put(feature_map, person_id,
                             Append(Get(feature_map, person_id), feats)))]

\* delete_person without 'total_images -= num_images'
delete_person_keeps_total_images(st, person_id) ==
  IF ~Has(st.persons, person_id)
  THEN [ok |-> FALSE, raised |-> FALSE, st |-> st]
  ELSE [ok |-> TRUE, raised |-> FALSE,
        st |-> FBIState(Del(st.persons, person_id),
                        st.total_persons - 1,
                        st.total_images,
                        Del(st.features, person_id))]

\* FBIDatabase.delete_person; 'del self.features[person_id]' raises KeyError
\* when the person has no entry in the features dictionary
delete_person(st, person_id) ==
  IF ~Has(st.persons, person_id)
  THEN [ok |-> FALSE, raised |-> FALSE, st |-> st]
  ELSE
    LET num_images == Len(Get(st.persons, person_id))
        removed == FBIState(Del(st.persons, person_id),
                            st.total_persons - 1,
                            st.total_images - num_images,
                            st.features)
    IN  IF ~Has(st.features, person_id)
        THEN [ok |-> FALSE, raised |-> TRUE, st |-> removed]
        ELSE [ok |-> TRUE, raised |-> FALSE,
              st |-> [removed EXCEPT !.features = Del(st.features, person_id)]]

\* FBIDatabase.get_all_features
get_all_features(st) == st.features

(***************************************************************************)
(* FBIMatcher (fbi_matcher.py).                                            *)
(***************************************************************************)
\* FBIMatcher.match_against_person: (max_similarity, avg_similarity, best index)
match_against_person(query_features, person_features) ==
  IF person_features = <<>>
  THEN [max_sim |-> Zero, avg_sim |-> Zero, best_idx |-> 0 - 1]
  ELSE
    LET similarities == [i \in 1..Len(person_features) |->
                           MatcherSimilarity[query_features, person_features[i]]]
        max_sim == PyMax(similarities)
    IN  [max_sim |-> max_sim, avg_sim |-> Mean(similarities),
         best_idx |-> PyIndex(similarities, max_sim)]

\* the result dictionary match_against_database builds for one person
MatchEntry(query_features, person_id, person_features, threshold) ==
  LET m == match_against_person(query_features, person_features)
      confidence == RatAdd(RatMul(<<7, 10>>, m.max_sim), RatMul(<<3, 10>>, m.avg_sim))
  IN  [person_id |-> person_id,
       confidence |-> confidence,
       max_similarity |-> m.max_sim,
       avg_similarity |-> m.avg_sim,
       best_match_index |-> m.best_idx,
       num_images |-> Len(person_features),
       is_match |-> RatGeq(confidence, threshold)]

\* FBIMatcher.match_against_database, for a matcher built with 'threshold'
match_against_database(query_features, database_features, top_k, threshold) ==
  LET results == [i \in 1..Len(database_features) |->
                    MatchEntry(query_features, database_features[i].k,
                               database_features[i].v, threshold)]
  IN  PySlice(SortDesc(results), top_k)

\* FBIMatcher.calculate_similarity in doubles, for feature vectors whose norm
\* is a power of two: the normalised components, their products and sums and
\* (similarity + 1) / 2 are then exact, and the double is the rational
calculate_similarity_binary64(features1, features2) ==
  FDiv(FromNat(calculate_similarity(features1, features2)[1]),
       FromNat(calculate_similarity(features1, features2)[2]))

\* max(similarities) from the i-th element on
RECURSIVE FMaxFrom(_, _, _)
FMaxFrom(similarities, i, best) ==
  IF i > Len(similarities) THEN best
  ELSE FMaxFrom(similarities, i + 1,
                IF FLess(best, similarities[i]) THEN similarities[i] ELSE best)

\* the sum np.mean takes, element after element
RECURSIVE FSumFrom(_, _, _)
FSumFrom(similarities, i, acc) ==
  IF i > Len(similarities) THEN acc
  ELSE FSumFrom(similarities, i + 1, FAdd(acc, similarities[i]))

\* FBIMatcher.match_against_person in doubles: (max_similarity, avg_similarity)
match_against_person_binary64(similarities) ==
  IF similarities = <<>>
  THEN [max_sim |-> FZero, avg_sim |-> FZero]
  ELSE [max_sim |-> FMaxFrom(similarities, 2, similarities[1]),
        avg_sim |-> FDiv(FSumFrom(similarities, 1, FZero), FromNat(Len(similarities)))]

\* the confidence, the similarities and the is_match flag of the result
\* dictionary match_against_database builds for one person, in doubles
MatchScores(m, threshold) ==
  [confidence |-> FAdd(FMul(Lit(7, 10), m.max_sim), FMul(Lit(3, 10), m.avg_sim)),
   max_similarity |-> m.max_sim,
   avg_similarity |-> m.avg_sim,
   is_match |-> ~FLess(FAdd(FMul(Lit(7, 10), m.max_sim), FMul(Lit(3, 10), m.avg_sim)),
                       threshold)]

MatchEntry_binary64(query_features, person_features, threshold) ==
  MatchScores(match_against_person_binary64(
                [i \in 1..Len(person_features) |->
                   calculate_similarity_binary64(query_features, person_features[i])]),
              threshold)

(***************************************************************************)
(* FBIFacialRecognitionSystem (fbi_system.py).  An image file is a record: *)
(* whether the path exists, whether cv2.imread loads it, and the feature   *)
(* vector of the first detected face (NoFace when the detector finds none).*)
(***************************************************************************)
\* what assess_image_quality measures on the pixels of an image: the variance
\* of the Laplacian, the mean and the standard deviation of the gray levels
Pixels(laplacian_var, mean, std) ==
  [laplacian_var |-> laplacian_var, mean |-> mean, std |-> std]
SharpPixels == Pixels(2000, 153, 64)
BlurredPixels == Pixels(100, 51, 32)

ImageFile(exists, readable, face) ==
  [exists |-> exists, readable |-> readable, face |-> face, pixels |-> SharpPixels]

\* files the enrollment loop skips: path missing, unreadable, no face detected
SkippedFiles ==
  {ImageFile(FALSE, FALSE, NoFace), ImageFile(TRUE, FALSE, NoFace),
   ImageFile(TRUE, TRUE, NoFace)}
FaceFiles == {ImageFile(TRUE, TRUE, v) : v \in Vecs}
ImageFiles == SkippedFiles \cup FaceFiles

\* FBIMatcher.assess_image_quality
assess_image_quality(image) ==
  LET sharpness_score == RatMin(Rat(image.pixels.laplacian_var, 1000), One)
      brightness == Rat(image.pixels.mean, 255)
      brightness_score ==
        IF RatLt(brightness, <<3, 10>>) \/ RatLt(<<4, 5>>, brightness)
        THEN <<1, 2>>
        ELSE RatSub(One, RatDiv(RatAbs(RatSub(brightness, <<11, 20>>)), <<1, 4>>))
      contrast_score == RatMin(Rat(image.pixels.std, 128), One)
  IN  [quality_score |-> RatAdd(RatMul(<<4, 10>>, sharpness_score),
                               RatAdd(RatMul(<<3, 10>>, brightness_score),
                                      RatMul(<<3, 10>>, contrast_score))),
       sharpness |-> sharpness_score,
       brightness |-> brightness_score,
       contrast |-> contrast_score]

\* a gray image whose pixels take the gray levels g1 <= g2 in equal numbers,
\* by what assess_image_quality measures on it: laplacian.var(), which the
\* arrangement of the pixels decides, np.mean(gray) = (g1 + g2) / 2 and
\* np.std(gray) = (g2 - g1) / 2, each of them a double
GrayImage(g1, g2, laplacian_var) ==
  [levels |-> <<g1, g2>>,
   laplacian_var |-> FromNat(laplacian_var),
   mean |-> FDiv(FromNat(g1 + g2), FromNat(2)),
   std |-> FDiv(FromNat(g2 - g1), FromNat(2))]

\* brightness_score of assess_image_quality, in doubles
brightness_score_binary64(brightness) ==
  IF FLess(brightness, Lit(3, 10)) \/ FLess(Lit(8, 10), brightness)
  THEN Lit(5, 10)
  ELSE FSub(FromNat(1), FDiv(FAbs(FSub(brightness, Lit(55, 100))), Lit(25, 100)))

\* the dictionary assess_image_quality returns for the three scores
QualityMetrics(sharpness_score, brightness_score, contrast_score) ==
  [quality_score |-> FAdd(FAdd(FMul(Lit(4, 10), sharpness_score),
                               FMul(Lit(3, 10), brightness_score)),
                          FMul(Lit(3, 10), contrast_score)),
   sharpness |-> sharpness_score,
   brightness |-> brightness_score,
   contrast |-> contrast_score]

\* FBIMatcher.assess_image_quality in doubles, as Python evaluates it
assess_image_quality_binary64(gray) ==
  QualityMetrics(FMin(FDiv(gray.laplacian_var, FromNat(1000)), FromNat(1)),
                 brightness_score_binary64(FDiv(gray.mean, FromNat(255))),
                 FMin(FDiv(gray.std, FromNat(128)), FromNat(1)))

\* FBIMatcher.extract_and_assess: the features of the detected landmarks and
\* the quality of the image
extract_and_assess(image) ==
  [features |-> image.face, quality |-> assess_image_quality(image)]

\* the img_metadata dictionary enroll_person_from_images passes to add_image
img_metadata(quality) ==
  [source |-> "manual_upload", quality_score |-> quality.quality_score,
   sharpness |-> quality.sharpness, brightness |-> quality.brightness,
   contrast |-> quality.contrast]

\* the loop over image_paths of enroll_person_from_images
RECURSIVE EnrollImages(_, _, _, _, _)
EnrollImages(st, person_id, image_paths, i, enrolled_count) ==
  IF i > Len(image_paths) THEN [st |-> st, enrolled_count |-> enrolled_count]
  ELSE
    LET image == image_paths[i]
    IN  IF ~image.exists \/ ~image.readable \/ image.face = NoFace
        THEN EnrollImages(st, person_id, image_paths, i + 1, enrolled_count)
        ELSE
          LET ea == extract_and_assess(image)
              r == add_image(st, person_id, image, ea.features,
                             <<img_metadata(ea.quality)>>)
          IN  EnrollImages(r.st, person_id, image_paths, i + 1,
                           IF r.ok THEN enrolled_count + 1 ELSE enrolled_count)

\* enroll_person_from_images keeping the person only when every image of the
\* batch was stored
enroll_person_from_images_needs_all(st, person_id, image_paths) ==
  LET added == add_person(st, person_id)
      looped == EnrollImages(added.st, person_id, image_paths, 1, 0)
  IN  IF ~added.ok
      THEN [ok |-> FALSE, msg |-> "already exists", st |-> st, enrolled_count |-> 0]
      ELSE IF looped.enrolled_count < Len(image_paths) \/ looped.enrolled_count = 0
      THEN [ok |-> FALSE, msg |-> "No faces detected in any images",
            st |-> st, enrolled_count |-> 0]
      ELSE [ok |-> TRUE, msg |-> "Successfully enrolled", st |-> looped.st,
            enrolled_count |-> looped.enrolled_count]

\* enroll_person_from_images without the delete_person of the failure path
enroll_person_from_images_no_rollback(st, person_id, image_paths) ==
  LET added == add_person(st, person_id)
      looped == EnrollImages(added.st, person_id, image_paths, 1, 0)
  IN  IF ~added.ok
      THEN [ok |-> FALSE, msg |-> "already exists", st |-> st, enrolled_count |-> 0]
      ELSE IF looped.enrolled_count = 0
      THEN [ok |-> FALSE, msg |-> "No faces detected in any images",
            st |-> looped.st, enrolled_count |-> 0]
      ELSE [ok |-> TRUE, msg |-> "Successfully enrolled", st |-> looped.st,
            enrolled_count |-> looped.enrolled_count]

\* FBIFacialRecognitionSystem.enroll_person_from_images
enroll_person_from_images(st, person_id, image_paths) ==
  LET added == add_person(st, person_id)
      looped == EnrollImages(added.st, person_id, image_paths, 1, 0)
  IN  IF ~added.ok
      THEN [ok |-> FALSE, msg |-> "already exists", st |-> st, enrolled_count |-> 0]
      ELSE IF looped.enrolled_count = 0
      THEN [ok |-> FALSE, msg |-> "No faces detected in any images",
            st |-> delete_person(looped.st, person_id).st, enrolled_count |-> 0]
      ELSE [ok |-> TRUE, msg |-> "Successfully enrolled", st |-> looped.st,
            enrolled_count |-> looped.enrolled_count]

\* FBIDatabase.get_person: None when the person has no record
get_person(st, person_id) ==
  [some |-> Has(st.persons, person_id), name |-> person_id]

\* best_match['name'] = person_data['name'], on the dictionary that is also
\* the first element of matches
WithName(m, name) ==
  [person_id |-> m.person_id, confidence |-> m.confidence,
   max_similarity |-> m.max_similarity, avg_similarity |-> m.avg_similarity,
   best_match_index |-> m.best_match_index, num_images |-> m.num_images,
   is_match |-> m.is_match, name |-> name]

\* FBILogger.log_match: the entry appended to the logger's matches
log_match(logged, match_data) ==
  Append(logged, [type |-> "match", data |-> match_data])

\* identify_face asks the matcher for the five best candidates
identify_top_k == 5
\* and keeps at most this many recent matches
recent_limit == 20

Session(current, recent, logged) ==
  [current_matches |-> current, recent_matches |-> recent, logger_matches |-> logged]

\* identify_face dropping the new match when the recent matches are full
RecordMatch_drops_newest(session, found, best_match) ==
  [best_match |-> <<best_match>>, landmarks |-> TRUE,
   session |->
     Session([found EXCEPT ![1] = best_match],
             IF ~best_match.is_match THEN session.recent_matches
             ELSE IF Len(session.recent_matches) + 1 > recent_limit
             THEN session.recent_matches
             ELSE Append(session.recent_matches, best_match),
             IF best_match.is_match
             THEN log_match(session.logger_matches, best_match)
             ELSE session.logger_matches)]

\* identify_face from 'best_match = matches[0]' on: the match is logged and
\* kept among the recent matches when it is_match, and found, with the name
\* in its first element, becomes current_matches
RecordMatch(session, found, best_match) ==
  [best_match |-> <<best_match>>, landmarks |-> TRUE,
   session |->
     Session([found EXCEPT ![1] = best_match],
             IF ~best_match.is_match THEN session.recent_matches
             ELSE IF Len(session.recent_matches) + 1 > recent_limit
             THEN Tail(Append(session.recent_matches, best_match))
             ELSE Append(session.recent_matches, best_match),
             IF best_match.is_match
             THEN log_match(session.logger_matches, best_match)
             ELSE session.logger_matches)]

\* the best match with the person's name, when the person has a record
NamedMatch(m, person_data) ==
  IF person_data.some THEN WithName(m, person_data.name) ELSE m

\* identify_face from 'if not matches' on
FaceMatched(st, session, found) ==
  IF found = <<>>
  THEN [best_match |-> <<>>, landmarks |-> TRUE, session |-> session]
  ELSE RecordMatch(session, found,
                   NamedMatch(found[1], get_person(st, found[1].person_id)))

\* FBIFacialRecognitionSystem.identify_face on the frame whose first detected
\* face has the features 'frame' (NoFace when the detector finds none):
\* the returned pair and the session state it leaves
identify_face(st, session, frame) ==
  IF frame = NoFace
  THEN [best_match |-> <<>>, landmarks |-> FALSE, session |-> session]
  ELSE FaceMatched(st, session,
                   match_against_database(frame, get_all_features(st), identify_top_k,
                                          matcher_threshold))

(***************************************************************************)
(* Inputs of the calls.                                                    *)
(***************************************************************************)
SeqsUpTo(S, n) == UNION {[1..m -> S] : m \in 0..n}

\* xs with its i-th element replaced by x
Replace(xs, i, x) == [xs EXCEPT ![i] = x]

\* enrollment batches: every list of faces, and the lists of VecA faces in
\* which one image has no face
FaceBatches == SeqsUpTo(Vecs, MaxBatch)
Batches ==
  FaceBatches \cup
  {Replace(b, i, NoFace) : b \in {f \in FaceBatches : Len(f) = MaxBatch /\ \A j \in 1..Len(f) : f[j] = VecA},
                           i \in 1..MaxBatch}

\* image path lists: every list of files with a face, and the lists of VecA
\* files in which one file is missing, unreadable or without a face
FaceLists == SeqsUpTo(FaceFiles, MaxPaths)
PathLists ==
  FaceLists \cup
  UNION {{Replace(l, i, x) : i \in 1..Len(l), x \in SkippedFiles} :
           l \in {f \in FaceLists : \A j \in 1..Len(f) : f[j].face = VecA}}
TopKs == (0 - 1)..MaxTopK

\* images of VecA and VecB faces, sharp and blurred
PixelSets == {SharpPixels, BlurredPixels}
QualityFiles ==
  {[ImageFile(TRUE, TRUE, v) EXCEPT !.pixels = px] : v \in {VecA, VecB}, px \in PixelSets}
QualityLists == SeqsUpTo(QualityFiles, MaxPaths)

\* gray images: levels around the ends and the centre of the brightness
\* band (0.3 * 255 = 76.5, 0.55 * 255 = 140.25, 0.8 * 255 = 204), a uniform
\* image has a Laplacian of variance 0
GrayLevels == {0, 51, 76, 77, 128, 140, 141, 153, 204, 205, 255}
LaplacianVariances == {100, 1000, 2000}
GrayImages ==
  {GrayImage(g, g, 0) : g \in GrayLevels} \cup
  {GrayImage(g[1], g[2], v) : g \in {x \in GrayLevels \X GrayLevels : x[1] < x[2]},
                              v \in LaplacianVariances}

(***************************************************************************)
(* Actions of BiometricAuthSystem.  Its calls write to a disk that takes   *)
(* every save; a failing disk is met by the calls of BiometricDatabase     *)
(* below.                                                                  *)
(***************************************************************************)
EnrollUser(user_id, images) ==
  /\ Ready
  /\ system = "BiometricAuthSystem"
  /\ TotalTemplates(database) + Len(images) <= MaxTemplates
  /\ LET r == enroll_user(database, user_id, images)
     IN  /\ database' = r.database
         /\ db_file' = IF r.ok THEN save(r.database, db_file, "ok").file ELSE db_file
         /\ last' = Call("enroll_user", user_id, images, r.ok, r.msg, <<>>,
                         r.database # database)
  /\ UNCHANGED <<system, sessionVars, threads, fbiVars>>

Verify(user_id, image) ==
  /\ Ready
  /\ system = "BiometricAuthSystem"
  /\ LET r == verify(database, verification_threshold, user_id, image)
     IN  last' = Call("verify", user_id, image, ~r.raised, r.msg,
                      [verified |-> r.verified, confidence |-> r.confidence], FALSE)
  /\ UNCHANGED <<system, sessionVars, threads, authVars, fbiVars>>

Identify(image, top_k) ==
  /\ Ready
  /\ system = "BiometricAuthSystem"
  /\ LET r == identify(database, identification_threshold, image, top_k)
     IN  last' = Call("identify", top_k, image, ~r.raised, "", r.matches, FALSE)
  /\ UNCHANGED <<system, sessionVars, threads, authVars, fbiVars>>

DeleteUser(user_id) ==
  /\ Ready
  /\ system = "BiometricAuthSystem"
  /\ LET r == delete_user(database, user_id)
     IN  /\ database' = r.database
         /\ db_file' = IF r.ok THEN save(r.database, db_file, "ok").file ELSE db_file
         /\ last' = Call("delete_user", user_id, <<>>, r.ok, "", <<>>,
                         r.database # database)
  /\ UNCHANGED <<system, sessionVars, threads, fbiVars>>

(***************************************************************************)
(* Calls of BiometricDatabase on its own.                                  *)
(***************************************************************************)
store == Store(database, db_file)

SetStore(st) ==
  /\ database' = st.database
  /\ db_file' = st.file

\* the call op(user_id, input) of BiometricDatabase that returned r
DatabaseCall(op, user_id, input, disk, r) ==
  /\ SetStore(r.st)
  /\ last' = Call(op, user_id, [input |-> input, disk |-> disk], r.ok, "", <<>>,
                  r.st # store)

DbEnrollUser(user_id, feature_vector, disk) ==
  /\ Ready
  /\ system = "BiometricAuthSystem"
  /\ TotalTemplates(database) + 1 <= MaxStored
  /\ DatabaseCall("BiometricDatabase.enroll_user", user_id, feature_vector, disk,
                  BiometricDatabase_enroll_user(store, user_id, feature_vector, disk))
  /\ UNCHANGED <<system, sessionVars, threads, fbiVars>>

DbDeleteUser(user_id, disk) ==
  /\ Ready
  /\ system = "BiometricAuthSystem"
  /\ DatabaseCall("BiometricDatabase.delete_user", user_id, <<>>, disk,
                  BiometricDatabase_delete_user(store, user_id, disk))
  /\ UNCHANGED <<system, sessionVars, threads, fbiVars>>

UpdateUserMetadata(user_id, disk) ==
  /\ Ready
  /\ system = "BiometricAuthSystem"
  /\ DatabaseCall("BiometricDatabase.update_user_metadata", user_id, <<>>, disk,
                  update_user_metadata(store, user_id, disk))
  /\ UNCHANGED <<system, sessionVars, threads, fbiVars>>

(***************************************************************************)
(* Actions of FBIFacialRecognitionSystem, its database and its matcher.    *)
(***************************************************************************)
fbi == FBIState(persons, total_persons, total_images, features)

SetFBI(st) ==
  /\ persons' = st.persons
  /\ total_persons' = st.total_persons
  /\ total_images' = st.total_images
  /\ features' = st.features

EnrollPersonFromImages(person_id, image_paths) ==
  /\ Ready
  /\ system = "FBIFacialRecognitionSystem"
  /\ total_images + Len(image_paths) <= MaxImages
  /\ LET r == enroll_person_from_images(fbi, person_id, image_paths)
     IN  /\ SetFBI(r.st)
         /\ last' = Call("enroll_person_from_images", person_id, image_paths,
                         r.ok, r.msg, r.enrolled_count, r.st # fbi)
  /\ UNCHANGED <<system, sessionVars, threads, authVars>>

AddPerson(person_id) ==
  /\ Ready
  /\ system = "FBIFacialRecognitionSystem"
  /\ LET r == add_person(fbi, person_id)
     IN  /\ SetFBI(r.st)
         /\ last' = Call("add_person", person_id, <<>>, r.ok, "", <<>>, r.st # fbi)
  /\ UNCHANGED <<system, sessionVars, threads, authVars>>

AddImage(person_id, image, feats) ==
  /\ Ready
  /\ system = "FBIFacialRecognitionSystem"
  /\ total_images + 1 <= MaxImages
  /\ LET r == add_image(fbi, person_id, image, feats,
                        <<img_metadata(assess_image_quality(image))>>)
     IN  /\ SetFBI(r.st)
         /\ last' = Call("add_image", person_id, <<image, feats>>, r.ok, r.msg, <<>>,
                         r.st # fbi)
  /\ UNCHANGED <<system, sessionVars, threads, authVars>>

DeletePerson(person_id) ==
  /\ Ready
  /\ system = "FBIFacialRecognitionSystem"
  /\ LET r == delete_person(fbi, person_id)
     IN  /\ SetFBI(r.st)
         /\ last' = Call("delete_person", person_id, <<>>, r.ok,
                         IF r.raised THEN "KeyError" ELSE "", <<>>, r.st # fbi)
  /\ UNCHANGED <<system, sessionVars, threads, authVars>>

MatchAgainstDatabase(query_features, top_k) ==
  /\ Ready
  /\ system = "FBIFacialRecognitionSystem"
  /\ last' = Call("match_against_database", top_k, query_features, TRUE, "",
                  match_against_database(query_features, get_all_features(fbi),
                                         top_k, matcher_threshold), FALSE)
  /\ UNCHANGED <<system, sessionVars, threads, authVars, fbiVars>>

\* the two similarity functions applied to a pair of feature vectors
Similarity(features1, features2) ==
  /\ Ready
  /\ last' = Call("similarity", 0, <<features1, features2>>, TRUE, "",
                  [compute_similarity |-> compute_similarity(features1, features2),
                   calculate_similarity |-> calculate_similarity(features1, features2)],
                  FALSE)
  /\ UNCHANGED <<system, sessionVars, threads, authVars, fbiVars>>

\* _check_sample_consistency applied to a list of feature vectors
CheckSampleConsistency(feature_vectors, min_sim) ==
  /\ Ready
  /\ system = "BiometricAuthSystem"
  /\ last' = Call("_check_sample_consistency", 0,
                  [feature_vectors |-> feature_vectors, min_similarity |-> min_sim],
                  TRUE, "", check_sample_consistency(feature_vectors, min_sim), FALSE)
  /\ UNCHANGED <<system, sessionVars, threads, authVars, fbiVars>>

\* assess_image_quality applied to a gray image
AssessImageQuality(gray) ==
  /\ Ready
  /\ system = "FBIFacialRecognitionSystem"
  /\ last' = Call("assess_image_quality", 0, gray, TRUE, "",
                  assess_image_quality_binary64(gray), FALSE)
  /\ UNCHANGED <<system, sessionVars, threads, authVars, fbiVars>>

\* the result match_against_database computes for one person of the database
MatchPerson(query_features, person_features) ==
  /\ Ready
  /\ system = "FBIFacialRecognitionSystem"
  /\ last' = Call("match_against_database.result", 0,
                  <<query_features, person_features>>, TRUE, "",
                  MatchEntry_binary64(query_features, person_features,
                                      Lit(matcher_threshold[1], matcher_threshold[2])),
                  FALSE)
  /\ UNCHANGED <<system, sessionVars, threads, authVars, fbiVars>>

session == Session(current_matches, recent_matches, logger_matches)

SetSession(s) ==
  /\ current_matches' = s.current_matches
  /\ recent_matches' = s.recent_matches
  /\ logger_matches' = s.logger_matches

\* the call identify_face(frame) that returned r, while the logger holds at
\* most max_logged matches
IdentifiedFace(frame, r, max_logged) ==
  /\ Len(r.session.logger_matches) <= max_logged
  /\ SetSession(r.session)
  /\ last' = Call("identify_face", 0, frame, TRUE, "",
                  [best_match |-> r.best_match, landmarks |-> r.landmarks],
                  r.session # session)

IdentifyFace(frame, max_logged) ==
  /\ Ready
  /\ system = "FBIFacialRecognitionSystem"
  /\ IdentifiedFace(frame, identify_face(fbi, session, frame), max_logged)
  /\ UNCHANGED <<system, authVars, fbiVars, threads>>

(***************************************************************************)
(* Two threads writing to one person of the FBI database.  The code takes  *)
(* no lock, so a thread can be pre-empted between any two statements: a    *)
(* step of a thread is one statement of add_person, add_image,             *)
(* delete_person or of the loop of enroll_person_from_images, named by the *)
(* thread's pc.  A KeyError leaves the call as an exception.               *)
(***************************************************************************)
\* a write: the call a thread makes and its arguments
Write(op, person_id, image_paths) ==
  [op |-> op, person_id |-> person_id, image_paths |-> image_paths]

\* a thread about to make the call w on the store 'start'
Thread(w, start) ==
  [write |-> w, start |-> start,
   pc |-> IF w.op = "delete_person" THEN "delete_check" ELSE "add_person_check",
   i |-> 1, enrolled_count |-> 0, num_images |-> 0, image_id |-> 0,
   features |-> <<>>, metadata |-> <<>>,
   result |-> "running"]

Goto(th, pc) == [th EXCEPT !.pc = pc]
Return(th, result) == [th EXCEPT !.pc = "done", !.result = result]

\* delete_person has returned or raised: the call of the thread ends, and
\* enroll_person_from_images, which called it to roll back, returns False
AfterDelete(th, result) ==
  IF th.write.op = "delete_person" THEN Return(th, result)
  ELSE IF result = "KeyError" THEN Return(th, "KeyError")
  ELSE Return(th, "False")

\* one statement of thread th on the store st
ThreadStep(st, th) ==
  LET p == th.write.person_id
      paths == th.write.image_paths
      known == Has(st.persons, p)
  IN  CASE th.pc = "add_person_check" ->
             [st |-> st,
              th |-> IF known THEN Return(th, "False") ELSE Goto(th, "add_person_insert")]
        [] th.pc = "add_person_insert" ->
             [st |-> [st EXCEPT !.persons = Put(@, p, <<>>)],
              th |-> Goto(th, "add_person_count")]
        [] th.pc = "add_person_count" ->
             [st |-> [st EXCEPT !.total_persons = @ + 1],
              th |-> Goto(th, "add_person_features")]
        [] th.pc = "add_person_features" ->
             [st |-> [st EXCEPT !.features = Put(@, p, <<>>)],
              th |-> Goto(th, "loop")]
        [] th.pc = "loop" ->
             [st |-> st,
              th |-> IF th.i > Len(paths) THEN Goto(th, "enrolled_check")
                     ELSE IF \/ ~paths[th.i].exists
                             \/ ~paths[th.i].readable
                             \/ paths[th.i].face = NoFace
                     THEN [th EXCEPT !.i = @ + 1]
                     ELSE [th EXCEPT
                             !.features = extract_and_assess(paths[th.i]).features,
                             !.metadata =
                               <<img_metadata(extract_and_assess(paths[th.i]).quality)>>,
                             !.pc = "add_image_check"]]
        [] th.pc = "add_image_check" ->
             [st |-> st,
              th |-> IF known THEN Goto(th, "add_image_id")
                     ELSE [th EXCEPT !.i = @ + 1, !.pc = "loop"]]
        [] th.pc = "add_image_id" ->
             [st |-> st,
              th |-> IF known
                     THEN [th EXCEPT !.image_id = Len(Get(st.persons, p)),
                                     !.pc = "add_image_append"]
                     ELSE Return(th, "KeyError")]
        [] th.pc = "add_image_append" ->
             IF known
             THEN [st |-> [st EXCEPT !.persons =
                             Put(@, p, Append(Get(st.persons, p),
                                              ImageData(p, th.image_id, th.metadata)))],
                   th |-> Goto(th, "add_image_count")]
             ELSE [st |-> st, th |-> Return(th, "KeyError")]
        [] th.pc = "add_image_count" ->
             [st |-> [st EXCEPT !.total_images = @ + 1],
              th |-> Goto(th, "add_image_features_init")]
        [] th.pc = "add_image_features_init" ->
             [st |-> IF Has(st.features, p) THEN st
                     ELSE [st EXCEPT !.features = Put(@, p, <<>>)],
              th |-> Goto(th, "add_image_features_append")]
        [] th.pc = "add_image_features_append" ->
             IF Has(st.features, p)
             THEN [st |-> [st EXCEPT !.features =
                             Put(@, p, Append(Get(st.features, p),
                                              th.features))],
                   th |-> [th EXCEPT !.enrolled_count = @ + 1, !.i = @ + 1,
                                     !.pc = "loop"]]
             ELSE [st |-> st, th |-> Return(th, "KeyError")]
        [] th.pc = "enrolled_check" ->
             [st |-> st,
              th |-> IF th.enrolled_count = 0 THEN Goto(th, "delete_check")
                     ELSE Return(th, "True")]
        [] th.pc = "delete_check" ->
             [st |-> st,
              th |-> IF known THEN Goto(th, "delete_len") ELSE AfterDelete(th, "False")]
        [] th.pc = "delete_len" ->
             [st |-> st,
              th |-> IF known
                     THEN [th EXCEPT !.num_images = Len(Get(st.persons, p)),
                                     !.pc = "delete_del_person"]
                     ELSE AfterDelete(th, "KeyError")]
        [] th.pc = "delete_del_person" ->
             IF known
             THEN [st |-> [st EXCEPT !.persons = Del(@, p)],
                   th |-> Goto(th, "delete_count_persons")]
             ELSE [st |-> st, th |-> AfterDelete(th, "KeyError")]
        [] th.pc = "delete_count_persons" ->
             [st |-> [st EXCEPT !.total_persons = @ - 1],
              th |-> Goto(th, "delete_count_images")]
        [] th.pc = "delete_count_images" ->
             [st |-> [st EXCEPT !.total_images = @ - th.num_images],
              th |-> Goto(th, "delete_del_features")]
        [] th.pc = "delete_del_features" ->
             IF Has(st.features, p)
             THEN [st |-> [st EXCEPT !.features = Del(@, p)],
                   th |-> AfterDelete(th, "True")]
             ELSE [st |-> st, th |-> AfterDelete(th, "KeyError")]

\* the call w made alone, from start to end
ApplyWrite(st, w) ==
  IF w.op = "delete_person" THEN delete_person(st, w.person_id).st
  ELSE enroll_person_from_images(st, w.person_id, w.image_paths).st

\* the stores the two sequential orders of w1 and w2 produce
SequentialOutcomes(st, w1, w2) ==
  {ApplyWrite(ApplyWrite(st, w1), w2), ApplyWrite(ApplyWrite(st, w2), w1)}

\* the writes to person p: its deletion, its enrollment from one image with
\* a face, and its enrollment from one image without
Writes(p) ==
  {Write("delete_person", p, <<>>),
   Write("enroll_person_from_images", p, <<ImageFile(TRUE, TRUE, VecA)>>),
   Write("enroll_person_from_images", p, <<ImageFile(TRUE, TRUE, NoFace)>>)}

\* two threads start the writes w1 and w2
StartWrites(w1, w2) ==
  /\ Ready
  /\ system = "FBIFacialRecognitionSystem"
  /\ threads = <<>>
  /\ total_images + Len(w1.image_paths) + Len(w2.image_paths) <= MaxImages
  /\ threads' = <<Thread(w1, fbi), Thread(w2, fbi)>>
  /\ last' = Call("start_writes", w1.person_id, <<w1, w2>>, TRUE, "", <<>>, TRUE)
  /\ UNCHANGED <<system, authVars, fbiVars, sessionVars>>

\* thread t executes its next statement
Step(t) ==
  /\ system = "FBIFacialRecognitionSystem"
  /\ t \in 1..Len(threads)
  /\ threads[t].pc # "done"
  /\ LET r == ThreadStep(fbi, threads[t])
     IN  /\ SetFBI(r.st)
         /\ threads' = [threads EXCEPT ![t] = r.th]
  /\ UNCHANGED <<system, authVars, sessionVars, last>>

\* the entry points of the two systems that work on the stores alone
NextEntry ==
  \/ \E u \in Ids, images \in Batches : EnrollUser(u, images)
  \/ \E u \in Ids, image \in Probes : Verify(u, image)
  \/ \E image \in Probes, top_k \in TopKs : Identify(image, top_k)
  \/ \E u \in Ids : DeleteUser(u)
  \/ \E p \in Ids, paths \in PathLists : EnrollPersonFromImages(p, paths)
  \/ \E p \in Ids : DeletePerson(p)
  \/ \E q \in Vecs, top_k \in TopKs : MatchAgainstDatabase(q, top_k)

\* the entry points and the operations of the stores
Next ==
  \/ \E u \in Ids, images \in Batches : EnrollUser(u, images)
  \/ \E u \in Ids, image \in Probes : Verify(u, image)
  \/ \E image \in Probes, top_k \in TopKs : Identify(image, top_k)
  \/ \E u \in Ids : DeleteUser(u)
  \/ \E p \in Ids, paths \in PathLists : EnrollPersonFromImages(p, paths)
  \/ \E p \in Ids : AddPerson(p)
  \/ \E p \in Ids, exists \in BOOLEAN, v \in Vecs :
        AddImage(p, ImageFile(exists, exists, v), v)
  \/ \E p \in Ids : DeletePerson(p)
  \/ \E q \in Vecs, top_k \in TopKs : MatchAgainstDatabase(q, top_k)

\* values of the min_similarity parameter: the default 0.65 and values the
\* similarities of the feature vectors take
Minimums == {<<1, 2>>, min_similarity, <<3, 4>>, One}

\* the consistency checker on its own
NextConsistency ==
  \E feature_vectors \in FaceBatches, min_sim \in Minimums :
    CheckSampleConsistency(feature_vectors, min_sim)

\* enrollments by the only thread, then two threads writing to one person
NextWrites ==
  \/ /\ threads = <<>>
     /\ \E p \in Ids, paths \in FaceLists : EnrollPersonFromImages(p, paths)
  \/ \E p \in Ids : \E w1, w2 \in Writes(p) : StartWrites(w1, w2)
  \/ \E t \in 1..2 : Step(t)

\* a session of either system: enrollments of users from VecA and VecB faces
\* and of persons from one image of a VecA face, deletions, and the
\* verification and identification of probes and camera frames
SessionBatches ==
  {b \in FaceBatches : Len(b) = min_samples_for_enrollment
                          /\ \A j \in 1..Len(b) : b[j] \in {VecA, VecB}}
SessionLists == {<<ImageFile(TRUE, TRUE, VecA)>>}

NextSession ==
  \/ \E u \in Ids, images \in SessionBatches : EnrollUser(u, images)
  \/ \E u \in Ids, image \in Probes : Verify(u, image)
  \/ \E image \in Probes, top_k \in TopKs : Identify(image, top_k)
  \/ \E u \in Ids : DeleteUser(u)
  \/ \E p \in Ids, paths \in SessionLists : EnrollPersonFromImages(p, paths)
  \/ \E p \in Ids : DeletePerson(p)
  \/ \E frame \in Probes : IdentifyFace(frame, MaxLogged)

\* the FBI system enrolling images of different quality
NextQuality ==
  \/ \E p \in Ids, paths \in QualityLists : EnrollPersonFromImages(p, paths)
  \/ \E p \in Ids : DeletePerson(p)
  \/ \E q \in Vecs, top_k \in TopKs : MatchAgainstDatabase(q, top_k)

\* non-zero feature vectors of integer norm: those of the stores, their
\* opposites, and vectors of other lengths and directions
Negated(a) == [i \in 1..Len(a) |-> 0 - a[i]]
SimVecs ==
  Vecs \cup {Negated(v) : v \in Vecs} \cup
  {<<8, 0, 0, 0, 0>>, <<2, 2, 2, 2, 0>>, <<0, 0, 3, 4, 0>>, <<1, 1, 1, 1, 0>>,
   <<0 - 2, 0 - 2, 0 - 2, 0 - 2, 0>>}

\* the similarity functions on their own
NextSimilarity == \E features1, features2 \in SimVecs : Similarity(features1, features2)

\* BiometricDatabase on its own, on a disk that takes every save, and the
\* verification and identification of probes against it
NextDatabase ==
  \/ \E u \in Ids, f \in Vecs : DbEnrollUser(u, f, "ok")
  \/ \E u \in Ids : DbDeleteUser(u, "ok")
  \/ \E u \in Ids : UpdateUserMetadata(u, "ok")
  \/ \E u \in Ids, image \in Probes : Verify(u, image)
  \/ \E image \in Probes, top_k \in TopKs : Identify(image, top_k)

\* BiometricDatabase, holding templates of one face, on a disk that can fail
NextDisk ==
  \/ \E u \in Ids, disk \in Disks : DbEnrollUser(u, VecA, disk)
  \/ \E u \in Ids, disk \in Disks : DbDeleteUser(u, disk)
  \/ \E u \in Ids, disk \in Disks : UpdateUserMetadata(u, disk)

\* a long session of the FBI system in front of one face: two persons are
\* enrolled, each from one image, and the camera frames show the VecA face
\* or no face
RecentIds == {1, 2}
RecentLists == {<<f>> : f \in FaceFiles}
NextRecent ==
  \/ \E p \in RecentIds, paths \in RecentLists : EnrollPersonFromImages(p, paths)
  \/ \E frame \in {VecA, NoFace} : IdentifyFace(frame, MaxRecent)

\* the matcher scoring one person
NextConfidence ==
  \E query_features \in Vecs, person_features \in SeqsUpTo(Vecs, MaxFeatures) :
    MatchPerson(query_features, person_features)

\* the quality assessor on its own
NextAssess == \E gray \in GrayImages : AssessImageQuality(gray)

Spec == Init /\ [][Next]_vars
SpecSimilarity == Init /\ [][NextSimilarity]_vars
SpecQuality == Init /\ [][NextQuality]_vars
SpecSession == Init /\ [][NextSession]_vars
SpecWrites == Init /\ [][NextWrites]_vars
SpecConsistency == Init /\ [][NextConsistency]_vars
SpecEntry == Init /\ [][NextEntry]_vars
SpecAssess == Init /\ [][NextAssess]_vars
SpecDatabase == Init /\ [][NextDatabase]_vars
SpecDisk == Init /\ [][NextDisk]_vars
SpecRecent == Init /\ [][NextRecent]_vars
SpecConfidence == Init /\ [][NextConfidence]_vars

(***************************************************************************)
(* Properties.                                                             *)
(***************************************************************************)
EnrollOps == {"enroll_user", "enroll_person_from_images"}

\* every identity of either store has at least one template
NoEmptyIdentity(db, ps, fs) ==
  /\ \A i \in 1..Len(db) : db[i].v # <<>>
  /\ \A i \in 1..Len(ps) : Has(fs, ps[i].k) /\ Get(fs, ps[i].k) # <<>>
  /\ \A i \in 1..Len(fs) : fs[i].v # <<>>

\* some pair of the faces of a batch scores below the enrollment minimum
PairBelowMinimum(faces) ==
  \E i, j \in 1..Len(faces) :
    /\ i < j
    /\ faces[i] # NoFace
    /\ faces[j] # NoFace
    /\ RatLt(compute_similarity(faces[i], faces[j]), min_similarity)

\* C1: after an enrollment call of either system returns, successful or not,
\* every identity in the store has at least one template, and a failed
\* enrollment leaves the set of identities as it was before the call.
C1_EnrollmentLeavesNoEmptyIdentity ==
  [][last'.op \in EnrollOps =>
       /\ NoEmptyIdentity(database', persons', features')
       /\ ~last'.ok =>
            /\ KeySet(database') = KeySet(database)
            /\ KeySet(persons') = KeySet(persons)
            /\ KeySet(features') = KeySet(features)]_vars

\* an enrollment from images without a face was rolled back while another
\* person stays enrolled
C1_Witness ==
  /\ last.op = "enroll_person_from_images"
  /\ ~last.ok
  /\ last.msg = "No faces detected in any images"
  /\ last.input # <<>>
  /\ ~Has(persons, last.id)
  /\ persons # <<>>

\* C2: BiometricAuthSystem.enroll_user on a batch with a pair of feature
\* vectors below the minimum pairwise similarity returns failure and leaves
\* the database exactly as it was.
C2_InconsistentBatchWritesNothing ==
  [][(last'.op = "enroll_user" /\ PairBelowMinimum(last'.input)) =>
       (~last'.ok /\ database' = database)]_vars

\* an inconsistent batch of faces was rejected for an already enrolled user
C2_Witness ==
  /\ last.op = "enroll_user"
  /\ PairBelowMinimum(last.input)
  /\ \A i \in 1..Len(last.input) : last.input[i] # NoFace
  /\ Len(last.input) >= min_samples_for_enrollment
  /\ ~last.ok
  /\ Has(database, last.id)

\* C3: every two templates stored under one user have similarity at or above
\* the enrollment minimum.
C3_TemplatesPairwiseSimilar ==
  \A u \in 1..Len(database) : ~PairBelowMinimum(database[u].v)

\* C4: enroll_person_from_images stores no template of a batch in which some
\* pair of extracted feature vectors is below the minimum pairwise
\* similarity.
C4_FBIEnrollmentChecksConsistency ==
  (last.op = "enroll_person_from_images"
     /\ PairBelowMinimum([i \in 1..Len(last.input) |->
                            IF last.input[i].exists /\ last.input[i].readable
                            THEN last.input[i].face ELSE NoFace]))
  => last.out = 0

\* C5: identification does not raise and no identity without templates is
\* in its result list.
C5_NoEmptyIdentityInResults ==
  /\ last.op = "identify" =>
       /\ last.ok
       /\ \A i \in 1..Len(last.out) : Get(database, last.out[i].user_id) # <<>>
  /\ last.op = "match_against_database" =>
       /\ last.ok
       /\ \A i \in 1..Len(last.out) : Get(features, last.out[i].person_id) # <<>>

NoStoredTemplates(db, user_id) == ~Has(db, user_id) \/ Get(db, user_id) = <<>>

\* C6: verify returns (False, 0.0, reason) without raising when the claimed
\* user has no stored templates (reason: user not found, also when the image
\* has no face) and when an enrolled user's image has no face (reason: no
\* face detected).
C6_VerifyTypedFailures ==
  last.op = "verify" =>
    /\ NoStoredTemplates(database, last.id) =>
         /\ last.ok
         /\ last.out = [verified |-> FALSE, confidence |-> Zero]
         /\ last.msg = "not_found"
    /\ (~NoStoredTemplates(database, last.id) /\ last.input = NoFace) =>
         /\ last.ok
         /\ last.out = [verified |-> FALSE, confidence |-> Zero]
         /\ last.msg = "no_face"

\* verify for an unknown user with an image without a face
C6_Witness ==
  /\ last.op = "verify"
  /\ ~Has(database, last.id)
  /\ last.input = NoFace
  /\ last.msg = "not_found"
  /\ database # <<>>

\* C7: for an enrolled user and an image with a face, verify's confidence is
\* the largest similarity between the probe and the user's templates, and
\* verified holds exactly when confidence >= verification_threshold.
C7_VerifyUsesMaximum ==
  (last.op = "verify" /\ Has(database, last.id) /\ last.input # NoFace) =>
    LET templates == Get(database, last.id)
        sims == {compute_similarity(last.input, templates[i]) : i \in 1..Len(templates)}
    IN  /\ last.ok
        /\ last.out.confidence \in sims
        /\ \A x \in sims : RatLeq(x, last.out.confidence)
        /\ last.out.verified <=> RatGeq(last.out.confidence, verification_threshold)

\* a verification accepted with confidence equal to the threshold
C7_Witness ==
  /\ last.op = "verify"
  /\ Has(database, last.id)
  /\ last.input # NoFace
  /\ last.out.confidence = verification_threshold
  /\ last.out.verified

Thresholds == {<<1, 2>>, <<7, 10>>, <<3, 4>>, <<9, 10>>, <<1, 1>>}

VerifyAccepts(t, user_id, image) == verify(database, t, user_id, image).verified

IdentifyAccepted(t, image, top_k) ==
  LET m == identify(database, t, image, top_k).matches
  IN  {m[i].user_id : i \in 1..Len(m)}

MatcherAccepted(t, query_features, top_k) ==
  LET m == match_against_database(query_features, features, top_k, t)
  IN  {m[i].person_id : i \in {j \in 1..Len(m) : m[j].is_match}}

\* C8: with the store, the probe and top_k of a call fixed, whatever is
\* accepted at a threshold t2 is accepted at every lower threshold t1:
\* verify's decision, the users identify returns, and the persons
\* match_against_database flags is_match.
C8_ThresholdMonotonicity ==
  \A t1, t2 \in Thresholds :
    RatLt(t1, t2) =>
      /\ last.op = "verify" =>
           (VerifyAccepts(t2, last.id, last.input) => VerifyAccepts(t1, last.id, last.input))
      /\ last.op = "identify" =>
           IdentifyAccepted(t2, last.input, last.id) \subseteq
             IdentifyAccepted(t1, last.input, last.id)
      /\ last.op = "match_against_database" =>
           MatcherAccepted(t2, last.input, last.id) \subseteq
             MatcherAccepted(t1, last.input, last.id)

\* an identification whose accepted set shrinks, without becoming empty, when
\* the threshold is raised
C8_Witness ==
  /\ last.op = "identify"
  /\ \E t1, t2 \in Thresholds :
       /\ RatLt(t1, t2)
       /\ IdentifyAccepted(t2, last.input, last.id) # {}
       /\ IdentifyAccepted(t2, last.input, last.id) # IdentifyAccepted(t1, last.input, last.id)

\* 0.7 * max + 0.3 * avg of a non-empty list of similarities
WeightedConfidence(sims) ==
  LET mx == CHOOSE x \in {sims[i] : i \in 1..Len(sims)} :
              \A i \in 1..Len(sims) : RatLeq(sims[i], x)
  IN  RatAdd(RatMul(<<7, 10>>, mx),
             RatMul(<<3, 10>>, RatMul(RatSum(sims), <<1, Len(sims)>>)))

\* C9: the confidence of every candidate identify or match_against_database
\* reports is 0.7 * max_similarity + 0.3 * avg_similarity over the
\* candidate's templates.
C9_WeightedConfidenceEverywhere ==
  /\ last.op = "identify" =>
       \A i \in 1..Len(last.out) :
         LET templates == Get(database, last.out[i].user_id)
         IN  last.out[i].confidence =
               WeightedConfidence([j \in 1..Len(templates) |->
                                     compute_similarity(last.input, templates[j])])
  /\ last.op = "match_against_database" =>
       \A i \in 1..Len(last.out) :
         LET templates == Get(features, last.out[i].person_id)
         IN  templates # <<>> =>
               last.out[i].confidence =
                 WeightedConfidence([j \in 1..Len(templates) |->
                                       calculate_similarity(last.input, templates[j])])

ResultId(m) == IF last.op = "identify" THEN m.user_id ELSE m.person_id

\* C10: an identification result is ordered by confidence descending, and
\* candidates of equal confidence by identifier ascending.
C10_TiesByIdentifier ==
  last.op \in {"identify", "match_against_database"} =>
    \A i, j \in 1..Len(last.out) :
      i < j =>
        \/ RatLt(last.out[j].confidence, last.out[i].confidence)
        \/ /\ last.out[j].confidence = last.out[i].confidence
           /\ ResultId(last.out[i]) < ResultId(last.out[j])

\* the candidates of an identification over the store of the running system,
\* each with the confidence the code computes for it
Candidates(query_features) ==
  IF last.op = "identify"
  THEN {[id |-> database[i].k,
         confidence |-> PyMax(Similarities(query_features, database[i].v))] :
          i \in 1..Len(database)}
  ELSE {[id |-> features[i].k,
         confidence |-> MatchEntry(query_features, features[i].k, features[i].v,
                                   matcher_threshold).confidence] :
          i \in 1..Len(features)}

ResultThreshold ==
  IF last.op = "identify" THEN identification_threshold ELSE matcher_threshold

\* C11: for top_k >= 0 an identification result has at most top_k entries,
\* none of them with a confidence below the threshold, and they are the
\* highest-confidence candidates that pass the threshold: an omitted passing
\* candidate is not above a returned one, and none is omitted while the
\* result is shorter than top_k.
C11_TopKPassingCandidates ==
  (/\ last.op \in {"identify", "match_against_database"}
   /\ last.ok
   /\ last.id >= 0
   /\ last.input # NoFace) =>
    LET returned == {ResultId(last.out[i]) : i \in 1..Len(last.out)}
        omitted == {c \in Candidates(last.input) :
                      /\ c.id \notin returned
                      /\ RatGeq(c.confidence, ResultThreshold)}
    IN  /\ Len(last.out) <= last.id
        /\ \A i \in 1..Len(last.out) : RatGeq(last.out[i].confidence, ResultThreshold)
        /\ \A c \in omitted :
             \A i \in 1..Len(last.out) : RatLeq(c.confidence, last.out[i].confidence)
        /\ omitted # {} => Len(last.out) = last.id

\* verify(u, probe) accepts with confidence 1, at every threshold, each probe
\* equal to a stored template of u
VerifiesOwnTemplates(db, u) ==
  LET templates == Get(db, u)
  IN  \A i \in 1..Len(templates), t \in Thresholds :
        LET r == verify(db, t, u, templates[i])
        IN  r.verified /\ r.confidence = One /\ ~r.raised

\* verify(u, probe) reports that u is not in the store, whatever the probe
UnknownIdentity(db, u) ==
  \A probe \in Probes, t \in Thresholds :
    LET r == verify(db, t, u, probe)
    IN  ~r.verified /\ r.msg = "not_found" /\ ~r.raised

\* C12: from a successful enrollment of an identity until its deletion,
\* verify with a probe equal to one of its stored templates returns
\* verified with confidence 1 at every threshold <= 1; for an identity
\* never enrolled, or deleted, verify reports the identity as unknown.
C12_EnrolledUntilDeleted ==
  /\ \A u \in Ids : UnknownIdentity(database, u)
  /\ [][/\ (last'.op = "enroll_user" /\ last'.ok) => Has(database', last'.id)
        /\ (last'.op = "delete_user" /\ last'.ok) => ~Has(database', last'.id)
        /\ \A u \in Ids :
             /\ (Has(database, u) /\ ~(last'.op = "delete_user" /\ last'.id = u)) =>
                  Has(database', u)
             /\ (~Has(database, u) /\ ~(last'.op = "enroll_user" /\ last'.id = u)) =>
                  ~Has(database', u)
        /\ database' # database =>
             \A u \in Ids :
               IF Has(database', u) THEN VerifiesOwnTemplates(database', u)
               ELSE UnknownIdentity(database', u)
        /\ last'.op = "verify" =>
             /\ ~Has(database, last'.id) => last'.msg = "not_found"
             /\ (/\ Has(database, last'.id)
                 /\ \E i \in 1..Len(Get(database, last'.id)) :
                      Get(database, last'.id)[i] = last'.input) =>
                  last'.out = [verified |-> TRUE, confidence |-> One]]_vars

\* a verification with a probe equal to one stored template of a user who
\* has another, different template
C12_Witness ==
  /\ last.op = "verify"
  /\ Has(database, last.id)
  /\ \E i, j \in 1..Len(Get(database, last.id)) :
       /\ Get(database, last.id)[i] = last.input
       /\ Get(database, last.id)[j] # last.input
  /\ last.out = [verified |-> TRUE, confidence |-> One]

\* C13: the consistency checker returns false exactly when some pair of
\* distinct positions i < j of the batch scores strictly below the minimum;
\* a batch of 0 or 1 vectors is consistent, and so is a batch whose every
\* pair scores the minimum or more.
C13_ConsistencyChecker ==
  last.op = "_check_sample_consistency" =>
    LET fv == last.input.feature_vectors
        m == last.input.min_similarity
        Pairs == {p \in (1..Len(fv)) \X (1..Len(fv)) : p[1] < p[2]}
    IN  /\ last.out = FALSE <=>
             \E p \in Pairs : RatLt(compute_similarity(fv[p[1]], fv[p[2]]), m)
        /\ Len(fv) < 2 => last.out = TRUE
        /\ (\A p \in Pairs : RatGeq(compute_similarity(fv[p[1]], fv[p[2]]), m)) =>
             last.out = TRUE

\* a batch of different vectors found consistent with one pair scoring
\* exactly the minimum
C13_Witness ==
  /\ last.op = "_check_sample_consistency"
  /\ last.out = TRUE
  /\ \E i, j \in 1..Len(last.input.feature_vectors) :
       /\ i < j
       /\ last.input.feature_vectors[i] # last.input.feature_vectors[j]
       /\ compute_similarity(last.input.feature_vectors[i],
                             last.input.feature_vectors[j]) = last.input.min_similarity

\* C14: when two concurrent writes to one person have both ended, the store
\* is one that some sequential order of the two writes produces, every
\* person has at least one feature vector, and every key of the features
\* has a person record.
C14_WritesSerialized ==
  (Len(threads) = 2 /\ \A t \in 1..2 : threads[t].pc = "done") =>
    /\ fbi \in SequentialOutcomes(threads[1].start, threads[1].write, threads[2].write)
    /\ \A i \in 1..Len(persons) :
         Has(features, persons[i].k) /\ Get(features, persons[i].k) # <<>>
    /\ \A i \in 1..Len(features) : Has(persons, features[i].k)

QueryOps == {"verify", "identify", "identify_face"}

\* C15: a verification or identification call leaves the template stores
\* unchanged and writes no state that another call reads or writes: the
\* session state of the system (current_matches, recent_matches, the
\* logger's matches) is after the call what it was before.
C15_StatelessQueries ==
  [][last'.op \in QueryOps =>
       /\ UNCHANGED <<database, persons, total_persons, total_images, features>>
       /\ UNCHANGED <<current_matches, recent_matches, logger_matches>>]_vars

\* C20: when the probe shows no face, identify returns the empty list and
\* identify_face returns (None, None); neither raises, neither changes a
\* store, and no match is logged or added to the recent matches.
C20_NoFaceIdentification ==
  [][(last'.op \in {"identify", "identify_face"} /\ last'.input = NoFace) =>
       /\ last'.ok
       /\ last'.op = "identify" => last'.out = <<>>
       /\ last'.op = "identify_face" =>
            last'.out = [best_match |-> <<>>, landmarks |-> FALSE]
       /\ UNCHANGED <<database, persons, total_persons, total_images, features>>
       /\ UNCHANGED <<logger_matches, recent_matches>>]_vars

\* a frame without a face shown to a system that has enrolled persons
C20_Witness ==
  /\ last.op = "identify_face"
  /\ last.input = NoFace
  /\ features # <<>>
  /\ last.out = [best_match |-> <<>>, landmarks |-> FALSE]

\* the image paths with the pixels of their images replaced
Requalified(image_paths) ==
  {[i \in 1..Len(image_paths) |-> [image_paths[i] EXCEPT !.pixels = px[i]]] :
     px \in [1..Len(image_paths) -> PixelSets]}

\* the store with the quality score of every image replaced by q
WithQuality(st, q) ==
  [st EXCEPT !.persons =
     [i \in 1..Len(st.persons) |->
        [k |-> st.persons[i].k,
         v |-> [j \in 1..Len(st.persons[i].v) |->
                  [st.persons[i].v[j] EXCEPT !.quality_score = q]]]]]

QualityScores ==
  {Zero} \cup {assess_image_quality([pixels |-> px]).quality_score : px \in PixelSets}

\* C16: image quality does not influence matching.  A run that enrolls the
\* same faces from images of other quality has the same outcome, stores the
\* same feature vectors and gets the same match results for every probe; and
\* a match over a store that differs in the quality scores of its images
\* alone returns the same similarities, confidences, ranking and decisions.
C16_QualityDoesNotInfluenceMatching ==
  [][/\ last'.op = "enroll_person_from_images" =>
          \A alt \in Requalified(last'.input) :
            LET r == enroll_person_from_images(fbi, last'.id, alt)
            IN  /\ r.ok = last'.ok
                /\ r.enrolled_count = last'.out
                /\ get_all_features(r.st) = features'
                /\ \A q \in Vecs :
                     match_against_database(q, get_all_features(r.st), NumIds,
                                            matcher_threshold)
                       = match_against_database(q, features', NumIds, matcher_threshold)
     /\ last'.op = "match_against_database" =>
          \A x \in QualityScores :
            match_against_database(last'.input, get_all_features(WithQuality(fbi, x)),
                                   last'.id, matcher_threshold) = last'.out]_vars

\* a match over a store that holds the same face from a sharp and from a
\* blurred image
C16_Witness ==
  /\ last.op = "match_against_database"
  /\ last.out # <<>>
  /\ \E i \in 1..Len(persons) :
       \E j, k \in 1..Len(persons[i].v) :
         RatLt(persons[i].v[j].quality_score, persons[i].v[k].quality_score)

\* clamp((c + 1) / 2, 0, 1)
RescaledCosine(c) == RatMax(Zero, RatMin(One, RatMul(RatAdd(c, One), <<1, 2>>)))

\* C17: for two vectors with cosine c both compute_similarity and
\* calculate_similarity return clamp((c + 1) / 2, 0, 1), a value in [0, 1].
C17_RescaledCosine ==
  last.op = "similarity" =>
    LET expected == RescaledCosine(Cosine(last.input[1], last.input[2]))
    IN  /\ RatLeq(Zero, expected) /\ RatLeq(expected, One)
        /\ last.out.compute_similarity = expected
        /\ last.out.calculate_similarity = expected

\* C18: both similarity functions are symmetric, and give 1 for a non-zero
\* vector compared with itself.
C18_SymmetricReflexive ==
  last.op = "similarity" =>
    /\ last.out.compute_similarity = compute_similarity(last.input[2], last.input[1])
    /\ last.out.calculate_similarity = calculate_similarity(last.input[2], last.input[1])
    /\ last.input[1] = last.input[2] =>
         /\ last.out.compute_similarity = One
         /\ last.out.calculate_similarity = One

\* two vectors of different length and direction compared
C18_Witness ==
  /\ last.op = "similarity"
  /\ Norm(last.input[1]) # Norm(last.input[2])
  /\ RatLt(Zero, last.out.compute_similarity)
  /\ RatLt(last.out.compute_similarity, One)
  /\ last.out.compute_similarity = compute_similarity(last.input[2], last.input[1])

\* a double in [0, 1]
InUnitInterval(x) == ~FLess(x, FZero) /\ ~FLess(FromNat(1), x)

\* C19: every match result of match_against_database has a confidence in
\* [0, 1] that lies between its avg_similarity and its max_similarity, and
\* its is_match is true exactly when the confidence is at least the
\* matcher's threshold.
C19_ConfidenceBounds ==
  last.op = "match_against_database.result" =>
    /\ InUnitInterval(last.out.confidence)
    /\ ~FLess(last.out.confidence, last.out.avg_similarity)
    /\ ~FLess(last.out.max_similarity, last.out.confidence)
    /\ last.out.is_match <=> ~FLess(last.out.confidence, Lit(3, 4))

\* C21: each of the four values the quality assessor returns is in [0, 1];
\* quality_score is 0.4 * sharpness + 0.3 * brightness + 0.3 * contrast; and
\* the brightness score, for the mean brightness b of the image, is 0.5 when
\* b is outside [0.3, 0.8] and 1 - |b - 0.55| / 0.25 when it is inside.
C21_QualityMetrics ==
  last.op = "assess_image_quality" =>
    LET b == FDiv(last.input.mean, FromNat(255))
        outside == FLess(b, Lit(3, 10)) \/ FLess(Lit(8, 10), b)
    IN  /\ InUnitInterval(last.out.sharpness)
        /\ InUnitInterval(last.out.brightness)
        /\ InUnitInterval(last.out.contrast)
        /\ InUnitInterval(last.out.quality_score)
        /\ last.out.quality_score =
             FAdd(FAdd(FMul(Lit(4, 10), last.out.sharpness),
                       FMul(Lit(3, 10), last.out.brightness)),
                  FMul(Lit(3, 10), last.out.contrast))
        /\ outside => last.out.brightness = Lit(5, 10)
        /\ ~outside =>
             last.out.brightness =
               FSub(FromNat(1), FDiv(FAbs(FSub(b, Lit(55, 100))), Lit(25, 100)))

\* C22: after BiometricDatabase.enroll_user(u, f), get_user_templates(u) is
\* not None and its last element is f; its length is 1 if u was absent before
\* the call and one more than before if u was present; the templates of every
\* other user are unchanged.
C22_EnrollAppendsTemplate ==
  [][last'.op = "BiometricDatabase.enroll_user" =>
       LET u == last'.id
           before == get_user_templates(database, u)
           after == get_user_templates(database', u)
       IN  /\ after.some
           /\ after.templates[Len(after.templates)] = last'.input.input
           /\ Len(after.templates) =
                IF before.some THEN Len(before.templates) + 1 ELSE 1
           /\ \A v \in Ids \ {u} :
                get_user_templates(database', v) = get_user_templates(database, v)]_vars

\* a user that was present got one more template, next to another user
C22_Witness ==
  /\ last.op = "BiometricDatabase.enroll_user"
  /\ Len(get_user_templates(database, last.id).templates) >= 2
  /\ \E v \in Ids \ {last.id} : get_user_templates(database, v).some

\* C23: after any sequence of enroll_user, delete_user and
\* update_user_metadata from the empty database, every user present has at
\* least one template, so the max() that verify and identify take over a
\* user's similarities is never taken over an empty list.
C23_EveryUserHasTemplate ==
  /\ \A i \in 1..Len(database) : Len(database[i].v) >= 1
  /\ last.op \in {"verify", "identify"} => last.ok

\* a deletion left a user behind, with its templates
C23_Witness ==
  /\ last.op = "BiometricDatabase.delete_user"
  /\ last.ok
  /\ Len(database) >= 1
  /\ Len(database[1].v) >= 2

\* C29: BiometricDatabase.enroll_user returns True only when the template
\* has been both added in memory and saved to disk: when save() fails, the
\* call does not report success and the database in memory does not differ
\* from the file on disk.
C29_SuccessOnlyWhenSaved ==
  [][last'.op = "BiometricDatabase.enroll_user" =>
       /\ last'.ok => db_file' = File(database')
       /\ ~save(database', db_file, last'.input.disk).ok =>
            ~last'.ok /\ db_file' = File(database')]_vars

\* the batch is one that enroll_user turns down: too few images, an image
\* without a face, or a pair of faces below the minimum similarity
RejectedBatch(images) ==
  \/ Len(images) < min_samples_for_enrollment
  \/ \E i \in 1..Len(images) : extract_features_from_image(images[i]) = NoFace
  \/ PairBelowMinimum(images)

\* C24: BiometricAuthSystem.enroll_user is all-or-nothing over the batch: with
\* fewer than min_samples_for_enrollment images, or an image that yields no
\* face, or a failed consistency check, the call returns failure and stores no
\* template of the batch; otherwise every vector of the batch is stored under
\* user_id, in batch order.
C24_EnrollmentAllOrNothing ==
  [][last'.op = "enroll_user" =>
       LET images == last'.input
           u == last'.id
       IN  /\ RejectedBatch(images) => ~last'.ok /\ database' = database
           /\ ~RejectedBatch(images) =>
                /\ last'.ok
                /\ get_user_templates(database', u).templates =
                     get_user_templates(database, u).templates \o
                       [i \in 1..Len(images) |-> extract_features_from_image(images[i])]
                /\ \A v \in Ids \ {u} :
                     get_user_templates(database', v) = get_user_templates(database, v)]_vars

\* a batch of different faces was stored behind the templates the user had
C24_Witness ==
  /\ last.op = "enroll_user"
  /\ last.ok
  /\ \E i, j \in 1..Len(last.input) : last.input[i] # last.input[j]
  /\ Len(get_user_templates(database, last.id).templates) > Len(last.input)

\* the sum over the persons of the length of their image lists
RECURSIVE ImageRecordsFrom(_, _)
ImageRecordsFrom(ps, i) ==
  IF i > Len(ps) THEN 0 ELSE Len(ps[i].v) + ImageRecordsFrom(ps, i + 1)

\* C25: in FBIDatabase, after any sequence of add_person, add_image and
\* delete_person calls from an empty database, total_persons is the number of
\* person records and total_images is the sum over the persons of the length
\* of their image lists; neither counter is ever negative.
C25_CountersMatchRecords ==
  /\ total_persons = Len(persons)
  /\ total_images = ImageRecordsFrom(persons, 1)
  /\ total_persons >= 0
  /\ total_images >= 0

\* a person was deleted and a person with images is left
C25_Witness ==
  /\ last.op = "delete_person"
  /\ last.ok
  /\ total_persons >= 1
  /\ total_images >= 1

\* C26: in FBIDatabase, after any sequence of add_person, add_image and
\* delete_person calls from an empty database, the person ids of the feature
\* map are the person ids of the metadata, and every person has as many
\* feature vectors as image records.
C26_FeaturesMatchRecords ==
  /\ KeySet(features) = KeySet(persons)
  /\ \A i \in 1..Len(persons) :
       Len(Get(features, persons[i].k)) = Len(persons[i].v)

\* a second image was added to one of two persons
C26_Witness ==
  /\ last.op = "add_image"
  /\ last.ok
  /\ Len(persons) >= 2
  /\ Len(Get(persons, last.id)) >= 2

\* what a dictionary holds for a key: <<value>>, or <<>> when the key is absent
Entry(d, key) == IF Has(d, key) THEN <<Get(d, key)>> ELSE <<>>

\* C27: deleting an identity that is not in the store returns failure and
\* leaves the store unchanged; deleting an identity that is present removes
\* its record and all of its templates and leaves the record and the
\* templates of every other identity unchanged.  This holds for
\* BiometricDatabase.delete_user and FBIDatabase.delete_person.
C27_DeleteFrame ==
  [][/\ last'.op = "delete_user" =>
          IF ~Has(database, last'.id)
          THEN ~last'.ok /\ database' = database /\ db_file' = db_file
          ELSE /\ last'.ok
               /\ ~Has(database', last'.id)
               /\ \A v \in Ids \ {last'.id} : Entry(database', v) = Entry(database, v)
     /\ last'.op = "delete_person" =>
          IF ~Has(persons, last'.id)
          THEN ~last'.ok /\ fbiVars' = fbiVars
          ELSE /\ last'.ok
               /\ ~Has(persons', last'.id)
               /\ ~Has(features', last'.id)
               /\ \A q \in Ids \ {last'.id} :
                    /\ Entry(persons', q) = Entry(persons, q)
                    /\ Entry(features', q) = Entry(features, q)]_vars

\* a user was deleted and another user is left with its templates
C27_Witness ==
  /\ last.op = "delete_user"
  /\ last.ok
  /\ database # <<>>
  /\ db_file = File(database)

\* the images of a batch that are there, can be read and show a face
Storable(image_paths) ==
  {i \in 1..Len(image_paths) :
     image_paths[i].exists /\ image_paths[i].readable /\ image_paths[i].face # NoFace}

\* C28: enroll_person_from_images for a person id that is absent succeeds
\* exactly when at least one image of the batch is stored by add_image; on
\* success the person has exactly as many templates as images stored (missing,
\* unreadable and faceless images are skipped), and on failure the person
\* record is removed and total_persons and total_images are back at their
\* values before the call.  For a person id that exists it returns failure
\* and leaves that person's record and templates unchanged.
C28_EnrollPersonOutcome ==
  [][last'.op = "enroll_person_from_images" =>
       LET p == last'.id
           stored == Cardinality(Storable(last'.input))
       IN  IF Has(persons, p)
           THEN /\ ~last'.ok
                /\ Entry(persons', p) = Entry(persons, p)
                /\ Entry(features', p) = Entry(features, p)
           ELSE /\ last'.ok <=> stored >= 1
                /\ last'.ok =>
                     /\ last'.out = stored
                     /\ Len(Get(persons', p)) = stored
                     /\ Len(Get(features', p)) = stored
                /\ ~last'.ok =>
                     /\ ~Has(persons', p)
                     /\ ~Has(features', p)
                     /\ total_persons' = total_persons
                     /\ total_images' = total_images]_vars

\* a person was enrolled from a batch of which one image was skipped
C28_Witness ==
  /\ last.op = "enroll_person_from_images"
  /\ last.ok
  /\ Len(last.input) = 2
  /\ Len(Get(features, last.id)) = 1
  /\ Len(persons) >= 2

\* the last n elements of a sequence, all of them when it has fewer
LastN(xs, n) ==
  IF Len(xs) <= n THEN xs ELSE [i \in 1..n |-> xs[Len(xs) - n + i]]

\* C30: in FBIFacialRecognitionSystem, after any sequence of identify_face
\* calls, recent_matches holds at most 20 entries, in arrival order with the
\* oldest evicted first, and an entry is appended to recent_matches and
\* written to the match log only for a best match whose is_match flag is true
\* (confidence >= 0.75).
C30_RecentMatches ==
  [][last'.op = "identify_face" =>
       LET best == last'.out.best_match
           matched == best # <<>> /\ best[1].is_match
       IN  /\ Len(recent_matches') <= 20
           /\ recent_matches' =
                LastN([i \in 1..Len(logger_matches') |-> logger_matches'[i].data], 20)
           /\ matched <=> (best # <<>> /\ RatGeq(best[1].confidence, <<3, 4>>))
           /\ IF matched
              THEN /\ logger_matches' = log_match(logger_matches, best[1])
                   /\ recent_matches' = LastN(Append(recent_matches, best[1]), 20)
              ELSE /\ logger_matches' = logger_matches
                   /\ recent_matches' = recent_matches]_vars

\* the oldest of the recent matches was evicted, and the twenty that are
\* kept are matches of two persons
C30_Witness ==
  /\ last.op = "identify_face"
  /\ Len(logger_matches) > 20
  /\ Len(recent_matches) = 20
  /\ recent_matches[1].person_id # recent_matches[20].person_id

====
